---- MODULE Spec2Model ----
(***************************************************************************)
(* TrustRail: the mock persistence layer (services/mockApi.ts), the trust  *)
(* evaluator it contains, the Trust Rules page and the Customers page.     *)
(*                                                                         *)
(* Optional values of the TypeScript code (a field that may be undefined)  *)
(* are sequences of length at most one: <<>> is undefined, <<v>> is v.     *)
(* A Map keyed by a generated id is a sequence in insertion order whose    *)
(* i-th element has id i (crypto.randomUUID never repeats and nothing is   *)
(* ever deleted from the maps).                                            *)
(***************************************************************************)
EXTENDS Integers, Sequences, FiniteSets, TLC

VARIABLES
    storage,    \* mockApi.ts `storage`: businesses, applications, trustRules, notifications
    ret,        \* outcome of the last mock operation: "ok" or the thrown message
    rules,      \* TrustRules page: the `rules` state (UI model)
    pageError,  \* TrustRules page: the `error` state and its pending clearing timer
    storage2,   \* the store of a second run, for two-run comparisons
    fnIn,       \* pure-function harness: the call and its arguments
    fnOut,      \* pure-function harness: <<>> before the call, <<result>> after
    client,     \* api client module: USE_MOCK_API, `mockApi` and the requests handled
    payment     \* CustomerPayment page: its useState values and pending calls

vars == <<storage, ret, rules, pageError, storage2, fnIn, fnOut, client, payment>>

-----------------------------------------------------------------------------
(* Bounds of the model *)

MaxBusinesses == 1
MaxApps == 2

-----------------------------------------------------------------------------
(* JavaScript values *)

None == <<>>
Some(v) == <<v>>

\* Truthiness of an optional string: undefined and "" are falsy.
TruthyStr(o) == o # None /\ o[1] # ""

\* Truthiness of an optional number: undefined and 0 are falsy.
TruthyNum(o) == o # None /\ o[1] # 0

Min(a, b) == IF a < b THEN a ELSE b
Max(a, b) == IF a > b THEN a ELSE b

-----------------------------------------------------------------------------
(* JavaScript numbers in arithmetic that divides: IEEE 754 binary64,       *)
(* round to nearest, ties to even.  A number is m * 2^e with m a natural   *)
(* of at most Precision bits; it is kept in the one form with m odd (or    *)
(* m = 0, e = 0), so that equal numbers are equal records.  Only finite    *)
(* non-negative numbers in the normal range occur.  The mantissa is a      *)
(* natural of arbitrary size: a sequence of limbs in base LimbBase, least  *)
(* significant first, without leading zero limbs.                          *)

Precision == 53
LimbBits == 15
LimbBase == 2^LimbBits

RECURSIVE BTrim(_)
BTrim(a) ==
    IF a # <<>> /\ a[Len(a)] = 0 THEN BTrim(SubSeq(a, 1, Len(a) - 1)) ELSE a

\* A natural below 2^31 as limbs
BigOf(n) ==
    BTrim(<<n % LimbBase, (n \div LimbBase) % LimbBase, n \div (LimbBase * LimbBase)>>)

Limb(a, i) == IF i <= Len(a) THEN a[i] ELSE 0
Rest(a) == IF a = <<>> THEN <<>> ELSE Tail(a)

RECURSIVE BAddC(_, _, _)
BAddC(a, b, carry) ==
    IF a = <<>> /\ b = <<>> THEN (IF carry = 0 THEN <<>> ELSE <<carry>>)
    ELSE LET sum == Limb(a, 1) + Limb(b, 1) + carry
         IN  <<sum % LimbBase>> \o BAddC(Rest(a), Rest(b), sum \div LimbBase)

BAdd(a, b) == BAddC(a, b, 0)

RECURSIVE BSubB(_, _, _)
BSubB(a, b, borrow) ==
    IF a = <<>> THEN <<>>
    ELSE LET d == a[1] - Limb(b, 1) - borrow
         IN  <<IF d < 0 THEN d + LimbBase ELSE d>>
                 \o BSubB(Tail(a), Rest(b), IF d < 0 THEN 1 ELSE 0)

\* a - b for a >= b
BSub(a, b) == BTrim(BSubB(a, b, 0))

RECURSIVE BCmpFrom(_, _, _)
BCmpFrom(a, b, i) ==
    IF i = 0 THEN 0
    ELSE IF a[i] # b[i] THEN (IF a[i] < b[i] THEN -1 ELSE 1)
    ELSE BCmpFrom(a, b, i - 1)

\* -1, 0, 1 as a < b, a = b, a > b
BCmp(a, b) ==
    IF Len(a) # Len(b) THEN (IF Len(a) < Len(b) THEN -1 ELSE 1)
    ELSE BCmpFrom(a, b, Len(a))

RECURSIVE BMulSmallC(_, _, _)
BMulSmallC(a, k, carry) ==
    IF a = <<>> THEN (IF carry = 0 THEN <<>> ELSE <<carry>>)
    ELSE LET p == a[1] * k + carry
         IN  <<p % LimbBase>> \o BMulSmallC(Tail(a), k, p \div LimbBase)

\* a * k for 0 <= k < LimbBase
BMulSmall(a, k) == BTrim(BMulSmallC(a, k, 0))

BShiftLimbs(a, n) == IF a = <<>> THEN <<>> ELSE [i \in 1..n |-> 0] \o a

RECURSIVE BMul(_, _)
BMul(a, b) ==
    IF b = <<>> THEN <<>>
    ELSE BAdd(BMulSmall(a, b[1]), BShiftLimbs(BMul(a, Tail(b)), 1))

RECURSIVE BDivFrom(_, _, _, _)
BDivFrom(a, k, i, r) ==
    IF i = 0 THEN [q |-> <<>>, r |-> r]
    ELSE LET cur == r * LimbBase + a[i]
             low == BDivFrom(a, k, i - 1, cur % k)
         IN  [q |-> Append(low.q, cur \div k), r |-> low.r]

\* quotient and remainder of a by k, 0 < k <= LimbBase
BDivSmall(a, k) ==
    LET d == BDivFrom(a, k, Len(a), 0) IN [q |-> BTrim(d.q), r |-> d.r]

\* a * 2^n
BShl(a, n) == BShiftLimbs(BMulSmall(a, 2^(n % LimbBits)), n \div LimbBits)

\* floor(a / 2^n)
BShr(a, n) ==
    IF n \div LimbBits >= Len(a) THEN <<>>
    ELSE BDivSmall(SubSeq(a, (n \div LimbBits) + 1, Len(a)), 2^(n % LimbBits)).q

RECURSIVE SmallBitLen(_)
SmallBitLen(x) == IF x = 0 THEN 0 ELSE 1 + SmallBitLen(x \div 2)

BBitLen(a) ==
    IF a = <<>> THEN 0 ELSE LimbBits * (Len(a) - 1) + SmallBitLen(a[Len(a)])

\* The number m * 2^e in its one form
RECURSIVE Canon(_, _)
Canon(m, e) ==
    IF m = <<>> THEN [m |-> <<>>, e |-> 0]
    ELSE IF m[1] = 0 THEN Canon(Tail(m), e + LimbBits)
    ELSE IF m[1] % 2 = 0 THEN Canon(BDivSmall(m, 2).q, e + 1)
    ELSE [m |-> m, e |-> e]

\* n * 2^e (plus a positive amount below 2^e when sticky) rounded to
\* Precision bits, to nearest, ties to even
FRound(n, e, sticky) ==
    LET s == BBitLen(n) - Precision
    IN  IF s <= 0 THEN Canon(n, e)
        ELSE LET q == BShr(n, s)
                 rem == BSub(n, BShl(q, s))
                 c == BCmp(rem, BShl(<<1>>, s - 1))
                 up == c = 1 \/ (c = 0 /\ (sticky \/ q[1] % 2 = 1))
             IN  Canon(IF up THEN BAdd(q, <<1>>) ELSE q, e + s)

\* An integer of 0 .. 2^31 - 1 as a number
FInt(n) == Canon(BigOf(n), 0)

\* The mantissas of x and y over their smaller exponent
FAligned(x, y) ==
    LET e == Min(x.e, y.e)
    IN  [x |-> BShl(x.m, x.e - e), y |-> BShl(y.m, y.e - e), e |-> e]

\* -1, 0, 1 as x < y, x = y, x > y
FCmp(x, y) == LET a == FAligned(x, y) IN BCmp(a.x, a.y)

\* x + y
FAdd(x, y) == LET a == FAligned(x, y) IN FRound(BAdd(a.x, a.y), a.e, FALSE)

\* x - y for x >= y
FSub(x, y) == LET a == FAligned(x, y) IN FRound(BSub(a.x, a.y), a.e, FALSE)

\* x * y
FMul(x, y) == FRound(BMul(x.m, y.m), x.e + y.e, FALSE)

\* Bits the dividend is extended by, so that the quotient by a one-limb
\* mantissa has more than Precision + 1 bits
QuotientShift == Precision + LimbBits + 2

\* x / y for y > 0 with a mantissa of one limb (the divisors of the code are
\* 100 and small counts)
FDiv(x, y) ==
    LET d == BDivSmall(BShl(x.m, QuotientShift), y.m[1])
    IN  FRound(d.q, x.e - y.e - QuotientShift, d.r # 0)

-----------------------------------------------------------------------------
(* Trust evaluator: mockApi.ts lines 57-85 *)

\* data.total_amount || data.recurring_amount || 0
scoringAmount(data) ==
    IF TruthyNum(data.total_amount) THEN data.total_amount[1]
    ELSE IF TruthyNum(data.recurring_amount) THEN data.recurring_amount[1]
    ELSE 0

\* Mutant: the amount brackets include their upper bound (<= for <).
baseScore_inclusiveBrackets(data) ==
    LET s0 == 50
        s1 == IF TruthyStr(data.customer_bvn) THEN s0 + 20 ELSE s0
        amount == scoringAmount(data)
        s2 == IF amount <= 50000 THEN s1 + 20
              ELSE IF amount <= 100000 THEN s1 + 15
              ELSE IF amount <= 200000 THEN s1 + 10
              ELSE s1
        s3 == IF data.payment_frequency = "monthly" THEN s2 + 10 ELSE s2
    IN  s3

\* Mutant: the amount brackets are independent ifs (the else is missing), so
\* a small amount collects every bracket's points.
baseScore_cumulativeBrackets(data) ==
    LET s0 == 50
        s1 == IF TruthyStr(data.customer_bvn) THEN s0 + 20 ELSE s0
        amount == scoringAmount(data)
        s2a == IF amount < 50000 THEN s1 + 20 ELSE s1
        s2b == IF amount < 100000 THEN s2a + 15 ELSE s2a
        s2 == IF amount < 200000 THEN s2b + 10 ELSE s2b
        s3 == IF data.payment_frequency = "monthly" THEN s2 + 10 ELSE s2
    IN  s3

\* The score before the random factor is added and before clamping.
baseScore(data) ==
    LET s0 == 50
        s1 == IF TruthyStr(data.customer_bvn) THEN s0 + 20 ELSE s0
        amount == scoringAmount(data)
        s2 == IF amount < 50000 THEN s1 + 20
              ELSE IF amount < 100000 THEN s1 + 15
              ELSE IF amount < 200000 THEN s1 + 10
              ELSE s1
        s3 == IF data.payment_frequency = "monthly" THEN s2 + 10 ELSE s2
    IN  s3

\* Mutant: the final clamp is missing.
calculateMockTrustScore_unclamped(data, jitter) ==
    baseScore(data) + jitter

\* jitter stands for Math.floor(Math.random() * 15), a value of 0..14.
calculateMockTrustScore(data, jitter) ==
    Min(100, Max(0, baseScore(data) + jitter))

\* Mutant: the cutoffs are exclusive (> for >=).
getStatusFromScore_exclusive(score) ==
    IF score > 70 THEN "approved"
    ELSE IF score > 40 THEN "under_review"
    ELSE "declined"

\* Mutant: scores below 60 are declined.
getStatusFromScore_declineBelow60(score) ==
    IF score >= 70 THEN "approved"
    ELSE IF score >= 60 THEN "under_review"
    ELSE "declined"

getStatusFromScore(score) ==
    IF score >= 70 THEN "approved"
    ELSE IF score >= 40 THEN "under_review"
    ELSE "declined"

-----------------------------------------------------------------------------
(* The store: mockApi.ts lines 46-52 and 190-465.                          *)
(* Every operation is an operator from a store (and its arguments) to the  *)
(* record [st |-> the store afterwards, ret |-> "ok" or the thrown message,*)
(* val |-> the value returned (None when it throws)].                      *)
(* Pass-through fields no operation reads (names, phone, bank details,     *)
(* timestamps) are left out of the records.                                *)

EmptyStorage ==
    [businesses |-> <<>>, applications |-> <<>>,
     trustRules |-> <<>>, notifications |-> <<>>]

\* The api client module and the CustomerPayment page where they are not
\* part of the run
NoClient == [useMockApi |-> FALSE, mockApi |-> None, handled |-> <<>>]
NoPage == None

\* Map.get / Map.has on a map keyed by generated ids
HasId(seq, id) == id \in DOMAIN seq

\* String.prototype.toLowerCase on the letters the model uses
lowerChar(c) ==
    IF c = "A" THEN "a" ELSE IF c = "Z" THEN "z" ELSE c

toLowerCase(s) == [i \in DOMAIN s |-> lowerChar(s[i])]

isSpace(c) == c = " "

RECURSIVE dropSpaces(_)
dropSpaces(s) ==
    IF s # <<>> /\ isSpace(Head(s)) THEN dropSpaces(Tail(s)) ELSE s

\* String.prototype.replace(/\s+/g, '-')
RECURSIVE replaceSpaces(_)
replaceSpaces(s) ==
    IF s = <<>> THEN <<>>
    ELSE IF isSpace(Head(s)) THEN <<"-">> \o replaceSpaces(dropSpaces(s))
    ELSE <<Head(s)>> \o replaceSpaces(Tail(s))

\* registerBusiness: "Create default trust rules"
defaultRules(businessId) ==
    [business_id |-> businessId,
     trusted_min |-> 80, verified_min |-> 60, new_min |-> 40, restricted_min |-> 20,
     auto_approve_threshold |-> 70, auto_decline_threshold |-> 30,
     max_outstanding_balance |-> 1000000, consecutive_failure_limit |-> 3,
     late_payment_penalty |-> 5, on_time_bonus |-> 3, min_history_for_trusted |-> 6]

\* Map.set on the trust-rules map, which is keyed by the caller's business id
setRules(map, businessId, r) ==
    [k \in (DOMAIN map) \cup {businessId} |-> IF k = businessId THEN r ELSE map[k]]

registerBusiness(st, data) ==
    LET id == Len(st.businesses) + 1
        business == [id |-> id,
                     business_name |-> data.business_name,
                     email |-> data.email,
                     payment_slug |-> replaceSpaces(toLowerCase(data.business_name))]
    IN  [st |-> [st EXCEPT !.businesses = Append(@, business),
                           !.trustRules = setRules(@, id, defaultRules(id))],
         ret |-> "ok", val |-> business]

\* Array.prototype.find over the businesses in insertion order
\* (hits: the indices of the businesses the predicate holds of)
findBusiness(st, hits) ==
    IF hits = {} THEN None
    ELSE Some(st.businesses[CHOOSE i \in hits : \A j \in hits : i <= j])

\* if (!business) throw new Error('Business not found'); return business
foundOrThrow(st, found) ==
    IF found = None
    THEN [st |-> st, ret |-> "Business not found", val |-> None]
    ELSE [st |-> st, ret |-> "ok", val |-> found[1]]

getBusinessBySlug(st, slug) ==
    foundOrThrow(st, findBusiness(st,
        {i \in DOMAIN st.businesses : st.businesses[i].payment_slug = slug}))

getBusinessByEmail(st, email) ==
    foundOrThrow(st, findBusiness(st,
        {i \in DOMAIN st.businesses : st.businesses[i].email = email}))

getBusinessById(st, id) ==
    foundOrThrow(st, IF HasId(st.businesses, id) THEN Some(st.businesses[id]) ELSE None)

\* Mutant: an unknown business id is ignored without an error.
updateSlug_silent(st, businessId, newSlug) ==
    IF ~HasId(st.businesses, businessId)
    THEN [st |-> st, ret |-> "ok", val |-> [success |-> TRUE]]
    ELSE [st |-> [st EXCEPT !.businesses[businessId].payment_slug = newSlug],
          ret |-> "ok", val |-> [success |-> TRUE]]

updateSlug(st, businessId, newSlug) ==
    IF ~HasId(st.businesses, businessId)
    THEN [st |-> st, ret |-> "Business not found", val |-> None]
    ELSE [st |-> [st EXCEPT !.businesses[businessId].payment_slug = newSlug],
          ret |-> "ok", val |-> [success |-> TRUE]]

\* Array.from(storage.applications.values()).filter(app => app.business_id === businessId)
applicationsOf(st, businessId) ==
    LET mine(app) == app.business_id = businessId
    IN  SelectSeq(st.applications, mine)

countStatus(apps, status) ==
    Cardinality({i \in DOMAIN apps : apps[i].status = status})

\* Math.round((approved / totalPayments) * 100), for 0 <= approved <= totalPayments
roundPercent(approved, totalPayments) ==
    (200 * approved + totalPayments) \div (2 * totalPayments)

getStats(st, businessId) ==
    LET applications == applicationsOf(st, businessId)
        totalPayments == Len(applications)
        approved == countStatus(applications, "approved")
    IN  [st |-> st, ret |-> "ok",
         val |-> [totalPayments |-> totalPayments,
                  successRate |-> IF totalPayments > 0
                                  THEN roundPercent(approved, totalPayments) ELSE 0,
                  pendingApprovals |-> countStatus(applications, "under_review"),
                  failedPayments |-> countStatus(applications, "declined")]]

\* Array.prototype.slice(0, 5)
firstFive(seq) == SubSeq(seq, 1, Min(5, Len(seq)))

getTransactions(st, businessId) ==
    LET apps == firstFive(applicationsOf(st, businessId))
    IN  [st |-> st, ret |-> "ok",
         val |-> [i \in DOMAIN apps |->
                     [id |-> apps[i].id,
                      customer_email |-> apps[i].customer_email,
                      total_amount |-> apps[i].total_amount,
                      recurring_amount |-> apps[i].recurring_amount,
                      payment_type |-> apps[i].payment_type,
                      status |-> apps[i].status,
                      trust_score |-> apps[i].trust_score,
                      created_at |-> apps[i].created_at]]]

\* `/businesses/${businessId}/transactions?limit=${limit}` as its pieces
\* between the slashes, the last one with its query
transactionsEndpoint(businessId, limit) ==
    <<"", "businesses", businessId, [path |-> "transactions", limit |-> limit]>>

\* businessApi.getTransactions through api.get and the route of handleRequest
\* for GET .../transactions: the id is endpoint.split('/')[2]
businessApi_getTransactions(st, businessId, limit) ==
    LET endpoint == transactionsEndpoint(businessId, limit)
        id == endpoint[3]
    IN  getTransactions(st, id)

notificationType(status) ==
    IF status = "approved" THEN "application_approved"
    ELSE IF status = "declined" THEN "application_declined"
    ELSE "application_under_review"

\* Mutant: every notification is of type application_under_review.
createNotification_oneType(st, application) ==
    LET notification == [id |-> Len(st.notifications) + 1,
                         business_id |-> application.business_id,
                         type |-> "application_under_review",
                         read |-> FALSE,
                         related_id |-> application.id]
    IN  [st EXCEPT !.notifications = Append(@, notification)]

createNotification(st, application) ==
    LET notification == [id |-> Len(st.notifications) + 1,
                         business_id |-> application.business_id,
                         type |-> notificationType(application.status),
                         read |-> FALSE,
                         related_id |-> application.id]
    IN  [st EXCEPT !.notifications = Append(@, notification)]

\* new Date().toISOString() at a submission, as an instant of a clock that
\* has advanced since the submission before
clock(st) == Len(st.applications) + 1

\* Mutant: the decision consults the thresholds stored for the business.
submitApplication_configured(st, data, jitter) ==
    LET trustScore == calculateMockTrustScore(data, jitter)
        known == data.business_id \in DOMAIN st.trustRules
        status == IF ~known THEN getStatusFromScore(trustScore)
                  ELSE IF trustScore >= st.trustRules[data.business_id].auto_approve_threshold
                       THEN "approved"
                  ELSE IF trustScore < st.trustRules[data.business_id].auto_decline_threshold
                       THEN "declined"
                  ELSE "under_review"
        application == [id |-> Len(st.applications) + 1,
                        business_id |-> data.business_id,
                        customer_email |-> data.customer_email,
                        customer_bvn |-> data.customer_bvn,
                        payment_type |-> data.payment_type,
                        total_amount |-> data.total_amount,
                        recurring_amount |-> data.recurring_amount,
                        payment_frequency |-> data.payment_frequency,
                        status |-> status,
                        trust_score |-> trustScore,
                        created_at |-> clock(st)]
        st1 == [st EXCEPT !.applications = Append(@, application)]
    IN  [st |-> createNotification(st1, application), ret |-> "ok", val |-> application]

submitApplication(st, data, jitter) ==
    LET trustScore == calculateMockTrustScore(data, jitter)
        status == getStatusFromScore(trustScore)
        application == [id |-> Len(st.applications) + 1,
                        business_id |-> data.business_id,
                        customer_email |-> data.customer_email,
                        customer_bvn |-> data.customer_bvn,
                        payment_type |-> data.payment_type,
                        total_amount |-> data.total_amount,
                        recurring_amount |-> data.recurring_amount,
                        payment_frequency |-> data.payment_frequency,
                        status |-> status,
                        trust_score |-> trustScore,
                        created_at |-> clock(st)]
        st1 == [st EXCEPT !.applications = Append(@, application)]
    IN  [st |-> createNotification(st1, application), ret |-> "ok", val |-> application]

getApplicationById(st, id) ==
    IF HasId(st.applications, id)
    THEN [st |-> st, ret |-> "ok", val |-> st.applications[id]]
    ELSE [st |-> st, ret |-> "Payment application not found", val |-> None]

\* app.total_amount || app.recurring_amount || 0
paidAmount(app) ==
    IF TruthyNum(app.total_amount) THEN app.total_amount[1]
    ELSE IF TruthyNum(app.recurring_amount) THEN app.recurring_amount[1]
    ELSE 0

\* The Customer created for the first application of an email
customerOf(app) ==
    [customer_email |-> app.customer_email,
     total_payments |-> 1,
     successful_payments |-> IF app.status = "approved" THEN 1 ELSE 0,
     average_trust_score |-> FInt(app.trust_score),
     total_amount_paid |-> paidAmount(app),
     active_plans |-> IF app.status = "approved" THEN 1 ELSE 0,
     last_payment_date |-> app.created_at]

\* Mutant: every further application counts as successful.
withPayment_alwaysSuccessful(existing, app) ==
    LET total_payments == existing.total_payments + 1
    IN  [existing EXCEPT
            !.total_payments = total_payments,
            !.successful_payments = @ + 1,
            !.average_trust_score =
                FDiv(FAdd(FMul(@, FInt(total_payments - 1)), FInt(app.trust_score)),
                     FInt(total_payments)),
            !.total_amount_paid = @ + paidAmount(app),
            !.last_payment_date = IF app.created_at > @ THEN app.created_at ELSE @]

\* The updates of `existing` for a further application of its email
withPayment(existing, app) ==
    LET total_payments == existing.total_payments + 1
    IN  [existing EXCEPT
            !.total_payments = total_payments,
            !.successful_payments = IF app.status = "approved" THEN @ + 1 ELSE @,
            !.average_trust_score =
                FDiv(FAdd(FMul(@, FInt(total_payments - 1)), FInt(app.trust_score)),
                     FInt(total_payments)),
            !.total_amount_paid = @ + paidAmount(app),
            !.last_payment_date = IF app.created_at > @ THEN app.created_at ELSE @]

\* customerMap after applications.forEach, as its values in insertion order
RECURSIVE customerMap(_)
customerMap(applications) ==
    IF applications = <<>> THEN <<>>
    ELSE LET before == customerMap(SubSeq(applications, 1, Len(applications) - 1))
             app == applications[Len(applications)]
             hits == {i \in DOMAIN before : before[i].customer_email = app.customer_email}
         IN  IF hits # {}
             THEN [before EXCEPT ![CHOOSE i \in hits : TRUE] = withPayment(@, app)]
             ELSE Append(before, customerOf(app))

getCustomers(st, businessId) ==
    [st |-> st, ret |-> "ok", val |-> customerMap(applicationsOf(st, businessId))]

\* getTrustRules: "Create default rules if none exist" (its own literal)
missingRules(businessId) ==
    [business_id |-> businessId,
     trusted_min |-> 80, verified_min |-> 60, new_min |-> 40, restricted_min |-> 20,
     auto_approve_threshold |-> 70, auto_decline_threshold |-> 30,
     max_outstanding_balance |-> 1000000, consecutive_failure_limit |-> 3,
     late_payment_penalty |-> 5, on_time_bonus |-> 3, min_history_for_trusted |-> 6]

\* Mutant: the defaults are returned but not stored.
getTrustRules_unstored(st, businessId) ==
    IF businessId \in DOMAIN st.trustRules
    THEN [st |-> st, ret |-> "ok", val |-> st.trustRules[businessId]]
    ELSE [st |-> st, ret |-> "ok", val |-> missingRules(businessId)]

getTrustRules(st, businessId) ==
    IF businessId \in DOMAIN st.trustRules
    THEN [st |-> st, ret |-> "ok", val |-> st.trustRules[businessId]]
    ELSE [st |-> [st EXCEPT !.trustRules = setRules(@, businessId, missingRules(businessId))],
          ret |-> "ok", val |-> missingRules(businessId)]

\* Mutant: saving the rules re-decides the business's stored applications
\* with the thresholds just saved.
updateTrustRules_redecide(st, businessId, r) ==
    LET redecide(a) ==
            IF a.business_id # businessId THEN a
            ELSE [a EXCEPT !.status =
                     IF a.trust_score >= r.auto_approve_threshold THEN "approved"
                     ELSE IF a.trust_score < r.auto_decline_threshold THEN "declined"
                     ELSE "under_review"]
    IN  [st |-> [st EXCEPT !.trustRules =
                     setRules(@, businessId, [r EXCEPT !.business_id = businessId]),
                           !.applications = [i \in DOMAIN @ |-> redecide(@[i])]],
         ret |-> "ok", val |-> [success |-> TRUE]]

\* { ...rules, business_id: businessId }
updateTrustRules(st, businessId, r) ==
    [st |-> [st EXCEPT !.trustRules =
                 setRules(@, businessId, [r EXCEPT !.business_id = businessId])],
     ret |-> "ok", val |-> [success |-> TRUE]]

markNotificationAsRead(st, notificationId) ==
    IF ~HasId(st.notifications, notificationId)
    THEN [st |-> st, ret |-> "Notification not found", val |-> None]
    ELSE [st |-> [st EXCEPT !.notifications[notificationId].read = TRUE],
          ret |-> "ok", val |-> [success |-> TRUE]]

-----------------------------------------------------------------------------
(* Trust Rules page (TrustRules component)                                 *)

\* useState initial value of `rules`; handleReset sets the same record
uiDefaultRules ==
    [trustedThreshold |-> 80, verifiedThreshold |-> 60,
     newCustomerThreshold |-> 40, restrictedThreshold |-> 20,
     autoApproveAbove |-> 70, autoDeclineBelow |-> 30,
     requireManualReview |-> TRUE,
     maxOutstandingPerCustomer |-> 200000, allowEmergencyOverride |-> TRUE,
     consecutiveFailureLimit |-> 3,
     penaltyForLatePay |-> 10, bonusForOnTime |-> 5, minimumHistoryForTrusted |-> 5]

\* useState<string | null>(null); no setTimeout pending
NoError == [message |-> None, clearPending |-> FALSE]

\* loadRules: "Map API data to UI model"
uiFromApi(apiRules) ==
    [trustedThreshold |-> apiRules.trusted_min,
     verifiedThreshold |-> apiRules.verified_min,
     newCustomerThreshold |-> apiRules.new_min,
     restrictedThreshold |-> apiRules.restricted_min,
     autoApproveAbove |-> apiRules.auto_approve_threshold,
     autoDeclineBelow |-> apiRules.auto_decline_threshold,
     requireManualReview |-> TRUE,
     maxOutstandingPerCustomer |-> apiRules.max_outstanding_balance,
     allowEmergencyOverride |-> TRUE,
     consecutiveFailureLimit |-> apiRules.consecutive_failure_limit,
     penaltyForLatePay |-> apiRules.late_payment_penalty,
     bonusForOnTime |-> apiRules.on_time_bonus,
     minimumHistoryForTrusted |-> apiRules.min_history_for_trusted]

\* handleSave: "Map UI model to API data"
apiFromUi(businessId, r) ==
    [business_id |-> businessId,
     trusted_min |-> r.trustedThreshold,
     verified_min |-> r.verifiedThreshold,
     new_min |-> r.newCustomerThreshold,
     restricted_min |-> r.restrictedThreshold,
     auto_approve_threshold |-> r.autoApproveAbove,
     auto_decline_threshold |-> r.autoDeclineBelow,
     max_outstanding_balance |-> r.maxOutstandingPerCustomer,
     consecutive_failure_limit |-> r.consecutiveFailureLimit,
     late_payment_penalty |-> r.penaltyForLatePay,
     on_time_bonus |-> r.bonusForOnTime,
     min_history_for_trusted |-> r.minimumHistoryForTrusted]

\* Mutant: the thresholds are exclusive (> for >=).
getTrustStateName_exclusive(r, score) ==
    IF score > r.trustedThreshold THEN "TRUSTED"
    ELSE IF score > r.verifiedThreshold THEN "VERIFIED"
    ELSE IF score > r.newCustomerThreshold THEN "NEW"
    ELSE IF score > r.restrictedThreshold THEN "RESTRICTED"
    ELSE "DEFAULTED"

\* Mutant: the names of the two middle tiers are exchanged.
getTrustStateName_namesSwapped(r, score) ==
    IF score >= r.trustedThreshold THEN "TRUSTED"
    ELSE IF score >= r.verifiedThreshold THEN "NEW"
    ELSE IF score >= r.newCustomerThreshold THEN "VERIFIED"
    ELSE IF score >= r.restrictedThreshold THEN "RESTRICTED"
    ELSE "DEFAULTED"

\* The tier of a score under the page's current `rules` (the name field of
\* the returned object; colour and policy text are fixed per name).
getTrustStateName(r, score) ==
    IF score >= r.trustedThreshold THEN "TRUSTED"
    ELSE IF score >= r.verifiedThreshold THEN "VERIFIED"
    ELSE IF score >= r.newCustomerThreshold THEN "NEW"
    ELSE IF score >= r.restrictedThreshold THEN "RESTRICTED"
    ELSE "DEFAULTED"

\* "Example Scenarios with Current Rules": the decision the page announces
scenarioDecision(r, score) ==
    IF score >= r.autoApproveAbove THEN "AUTO-APPROVED"
    ELSE IF score < r.autoDeclineBelow THEN "AUTO-DECLINED"
    ELSE "MANUAL REVIEW"

-----------------------------------------------------------------------------
(* Customers page (Customers component)                                    *)

\* `stats`: the one counter of the 5-tier distribution a score is counted in
statsBucket(score) ==
    {t \in {"trusted", "verified", "new", "restricted", "defaulted"} :
        \/ t = "trusted" /\ score >= 80
        \/ t = "verified" /\ score >= 60 /\ score < 80
        \/ t = "new" /\ score >= 40 /\ score < 60
        \/ t = "restricted" /\ score >= 20 /\ score < 40
        \/ t = "defaulted" /\ score < 20}

getTrustColor(score) ==
    IF score >= 80 THEN "text-green-700"
    ELSE IF score >= 60 THEN "text-blue-600"
    ELSE IF score >= 40 THEN "text-yellow-600"
    ELSE IF score >= 20 THEN "text-orange-600"
    ELSE "text-red-600"

-----------------------------------------------------------------------------
(* Payment form (CustomerPayment component): the instalment schedule       *)
(* preview.  A Date is the civil date [y, m, d] it shows in the browser's  *)
(* time zone, with m the month index 0 .. 11 of getMonth; the start date   *)
(* is the date typed into the form.                                        *)

isLeapYear(y) == (y % 4 = 0 /\ y % 100 # 0) \/ y % 400 = 0

daysInMonth(y, m) ==
    IF m = 1 THEN (IF isLeapYear(y) THEN 29 ELSE 28)
    ELSE IF m \in {3, 5, 8, 10} THEN 30
    ELSE 31

\* The date of day d >= 1 counted from the first of month m of year y: a
\* day beyond the end of the month runs over into the following months.
RECURSIVE makeDay(_, _, _)
makeDay(y, m, d) ==
    IF d > daysInMonth(y, m)
    THEN makeDay(IF m = 11 THEN y + 1 ELSE y, (m + 1) % 12, d - daysInMonth(y, m))
    ELSE [y |-> y, m |-> m, d |-> d]

\* Date.prototype.setMonth(month) for month >= 0: the day of the month is kept
setMonth(date, month) == makeDay(date.y + (month \div 12), month % 12, date.d)

\* Date.prototype.setDate(day) for day >= 1
setDate(date, day) == makeDay(date.y, date.m, day)

intervalDays(paymentFrequency) ==
    CASE paymentFrequency = "biweekly" -> 14
      [] paymentFrequency = "weekly" -> 7
      [] paymentFrequency = "daily" -> 1
      [] OTHER -> 30

\* The loop that fills `schedule`
scheduleEntries(form, numInstalments, installmentAmount) ==
    LET startDate == form.preferredStartDate
    IN  [i \in 1..numInstalments |->
            [number |-> i,
             date |-> IF form.paymentFrequency = "monthly"
                      THEN setMonth(startDate, startDate.m + i - 1)
                      ELSE setDate(startDate,
                                   startDate.d + intervalDays(form.paymentFrequency) * (i - 1)),
             amount |-> installmentAmount]]

\* Mutant: the total leaves the interest out.
getInstalmentSchedule_totalWithoutInterest(form) ==
    IF form.paymentType # "INSTALMENT" \/ form.totalAmount = None
          \/ form.paymentRules = None
    THEN None
    ELSE
    LET paymentRules == form.paymentRules[1]
        amount == form.totalAmount[1]
        downPayment == FDiv(FMul(amount, paymentRules.down_payment_percentage), FInt(100))
        remaining == FSub(amount, downPayment)
        numInstalments == paymentRules.max_instalment_period
        monthlyInterest == IF paymentRules.enable_fees
                           THEN FDiv(FMul(remaining, paymentRules.interest_rate), FInt(100))
                           ELSE FInt(0)
        totalInterest == FMul(monthlyInterest, FInt(numInstalments))
        totalWithInterest == FAdd(remaining, totalInterest)
        installmentAmount == FDiv(totalWithInterest, FInt(numInstalments))
    IN  Some([downPayment |-> downPayment,
              installmentAmount |-> installmentAmount,
              numInstalments |-> numInstalments,
              totalInterest |-> totalInterest,
              total |-> amount,
              schedule |-> scheduleEntries(form, numInstalments, installmentAmount)])

\* Mutant: the interest of one period is not multiplied by the number of
\* instalments.
getInstalmentSchedule_interestOnce(form) ==
    IF form.paymentType # "INSTALMENT" \/ form.totalAmount = None
          \/ form.paymentRules = None
    THEN None
    ELSE
    LET paymentRules == form.paymentRules[1]
        amount == form.totalAmount[1]
        downPayment == FDiv(FMul(amount, paymentRules.down_payment_percentage), FInt(100))
        remaining == FSub(amount, downPayment)
        numInstalments == paymentRules.max_instalment_period
        monthlyInterest == IF paymentRules.enable_fees
                           THEN FDiv(FMul(remaining, paymentRules.interest_rate), FInt(100))
                           ELSE FInt(0)
        totalInterest == monthlyInterest
        totalWithInterest == FAdd(remaining, totalInterest)
        installmentAmount == FDiv(totalWithInterest, FInt(numInstalments))
    IN  Some([downPayment |-> downPayment,
              installmentAmount |-> installmentAmount,
              numInstalments |-> numInstalments,
              totalInterest |-> totalInterest,
              total |-> FAdd(amount, totalInterest),
              schedule |-> scheduleEntries(form, numInstalments, installmentAmount)])

\* form: paymentType, formData.totalAmount (None for the empty field, else
\* its Number), formData.paymentFrequency, formData.preferredStartDate and
\* the paymentRules state (None for null).  Returns None for null.
getInstalmentSchedule(form) ==
    IF form.paymentType # "INSTALMENT" \/ form.totalAmount = None
          \/ form.paymentRules = None
    THEN None
    ELSE
    LET paymentRules == form.paymentRules[1]
        amount == form.totalAmount[1]
        downPayment == FDiv(FMul(amount, paymentRules.down_payment_percentage), FInt(100))
        remaining == FSub(amount, downPayment)
        numInstalments == paymentRules.max_instalment_period
        monthlyInterest == IF paymentRules.enable_fees
                           THEN FDiv(FMul(remaining, paymentRules.interest_rate), FInt(100))
                           ELSE FInt(0)
        totalInterest == FMul(monthlyInterest, FInt(numInstalments))
        totalWithInterest == FAdd(remaining, totalInterest)
        installmentAmount == FDiv(totalWithInterest, FInt(numInstalments))
    IN  Some([downPayment |-> downPayment,
              installmentAmount |-> installmentAmount,
              numInstalments |-> numInstalments,
              totalInterest |-> totalInterest,
              total |-> FAdd(amount, totalInterest),
              schedule |-> scheduleEntries(form, numInstalments, installmentAmount)])

-----------------------------------------------------------------------------
(* Inputs of the store specification *)

\* An id no business, application or notification is ever given
UnknownId == MaxBusinesses + MaxApps + 1

UserEmail == "owner@shop"

BusinessKeys == {UnknownId} \cup DOMAIN storage.businesses
ApplicationKeys == {UnknownId} \cup DOMAIN storage.applications
NotificationKeys == {UnknownId} \cup DOMAIN storage.notifications

RegisterInputs ==
    {[business_name |-> <<"A", " ", " ", "Z">>, email |-> UserEmail]}

\* Slugs the Payment Link page sends: the one registration gave the business
\* (the link saved unedited) and a new one
CurrentSlugInputs ==
    {replaceSpaces(toLowerCase(data.business_name)) : data \in RegisterInputs}

SlugInputs == CurrentSlugInputs \cup {<<"s">>}

\* Emails looked up: the owners' and one nobody registered with
EmailInputs == {data.email : data \in RegisterInputs} \cup {"nobody@shop"}

\* What a customer submits, with the random factor drawn for it; the business
\* id is added by the action.  The first scores 50, the lowest score there is
\* (under_review); the second 114 before clamping, the highest (approved).
SubmitInputs ==
    {[form |-> [customer_email |-> "c@mail", customer_bvn |-> None,
                payment_type |-> "INSTALMENT", total_amount |-> Some(250000),
                recurring_amount |-> None, payment_frequency |-> "weekly"],
      jitter |-> 0],
     [form |-> [customer_email |-> "d@mail", customer_bvn |-> Some("22212345678"),
                payment_type |-> "INSTALMENT", total_amount |-> Some(40000),
                recurring_amount |-> None, payment_frequency |-> "monthly"],
      jitter |-> 14]}

withBusiness(form, businessId) ==
    [business_id |-> businessId,
     customer_email |-> form.customer_email,
     customer_bvn |-> form.customer_bvn,
     payment_type |-> form.payment_type,
     total_amount |-> form.total_amount,
     recurring_amount |-> form.recurring_amount,
     payment_frequency |-> form.payment_frequency]

\* Rules a caller of PUT /businesses/:id/trust-rules may send
RuleInputs ==
    {[defaultRules(UnknownId) EXCEPT !.auto_approve_threshold = 90,
                                     !.auto_decline_threshold = 60]}

-----------------------------------------------------------------------------
(* The store specification: any sequence of mock-store operations *)

Done(r) ==
    /\ storage' = r.st
    /\ ret' = r.ret
    /\ UNCHANGED <<rules, pageError, storage2, fnIn, fnOut, client, payment>>

RegisterBusiness ==
    /\ Len(storage.businesses) < MaxBusinesses
    /\ \E data \in RegisterInputs : Done(registerBusiness(storage, data))

SubmitApplicationTo(keys) ==
    /\ Len(storage.applications) < MaxApps
    /\ \E in \in SubmitInputs, b \in keys :
           Done(submitApplication(storage, withBusiness(in.form, b), in.jitter))

SubmitApplication == SubmitApplicationTo(BusinessKeys)

GetTrustRules ==
    \E b \in BusinessKeys : Done(getTrustRules(storage, b))

UpdateTrustRules ==
    \E b \in BusinessKeys, r \in RuleInputs : Done(updateTrustRules(storage, b, r))

UpdateSlugTo(slugs) ==
    \E b \in BusinessKeys, slug \in slugs : Done(updateSlug(storage, b, slug))

UpdateSlug == UpdateSlugTo(CurrentSlugInputs)

MarkNotificationAsRead ==
    \E n \in NotificationKeys : Done(markNotificationAsRead(storage, n))

GetBusinessById ==
    \E b \in BusinessKeys : Done(getBusinessById(storage, b))

GetBusinessBySlug ==
    \E slug \in SlugInputs : Done(getBusinessBySlug(storage, slug))

GetBusinessByEmail ==
    \E email \in EmailInputs : Done(getBusinessByEmail(storage, email))

GetApplicationById ==
    \E a \in ApplicationKeys : Done(getApplicationById(storage, a))

GetStats ==
    \E b \in BusinessKeys : Done(getStats(storage, b))

GetTransactions ==
    \E b \in BusinessKeys : Done(getTransactions(storage, b))

GetCustomers ==
    \E b \in BusinessKeys : Done(getCustomers(storage, b))

Init ==
    /\ storage = EmptyStorage
    /\ ret = "ok"
    /\ rules = uiDefaultRules
    /\ pageError = NoError
    /\ storage2 = EmptyStorage
    /\ client = NoClient
    /\ payment = NoPage
    /\ fnIn = None
    /\ fnOut = None

Next ==
    \/ RegisterBusiness
    \/ SubmitApplication
    \/ GetTrustRules
    \/ UpdateTrustRules
    \/ UpdateSlug
    \/ MarkNotificationAsRead
    \/ GetBusinessById
    \/ GetBusinessBySlug
    \/ GetBusinessByEmail
    \/ GetApplicationById
    \/ GetStats
    \/ GetTransactions
    \/ GetCustomers

Spec == Init /\ [][Next]_vars

-----------------------------------------------------------------------------
(* The store receiving payloads from any client of POST                    *)
(* /payment-applications: the payloads of the payment form and payloads    *)
(* that lack the amount field of their payment type.                       *)

IncompletePayloads ==
    {[form |-> [customer_email |-> "c@mail", customer_bvn |-> None,
                payment_type |-> "INSTALMENT", total_amount |-> None,
                recurring_amount |-> None, payment_frequency |-> "monthly"],
      jitter |-> 0],
     [form |-> [customer_email |-> "d@mail", customer_bvn |-> Some("22212345678"),
                payment_type |-> "SUBSCRIPTION", total_amount |-> None,
                recurring_amount |-> None, payment_frequency |-> "weekly"],
      jitter |-> 14]}

PayloadInputs == SubmitInputs \cup IncompletePayloads

SubmitPayload ==
    /\ Len(storage.applications) < MaxApps
    /\ \E in \in PayloadInputs, b \in BusinessKeys :
           Done(submitApplication(storage, withBusiness(in.form, b), in.jitter))

NextPayloads ==
    \/ RegisterBusiness
    \/ SubmitPayload
    \/ GetApplicationById

SpecPayloads == Init /\ [][NextPayloads]_vars

-----------------------------------------------------------------------------
(* The business registry: owners register, some under names that differ    *)
(* only in case and spacing, change their payment slugs and customers open *)
(* payment links.                                                          *)

MaxRegistry == 3

RegistryInputs ==
    RegisterInputs \cup {[business_name |-> <<"a", " ", "z">>, email |-> "second@shop"]}

RegisterAnyBusiness ==
    /\ Len(storage.businesses) < MaxRegistry
    /\ \E data \in RegistryInputs : Done(registerBusiness(storage, data))

UpdateSlugFreely == UpdateSlugTo(SlugInputs)

NextRegistry ==
    \/ RegisterAnyBusiness
    \/ UpdateSlugFreely
    \/ GetBusinessBySlug

SpecRegistry == Init /\ [][NextRegistry]_vars

-----------------------------------------------------------------------------
(* The api client: the module is evaluated with USE_MOCK_API read from the *)
(* environment, the dynamic import of the mock module resolves at some     *)
(* later time, and the pages issue requests at any time.                   *)

MaxRequests == 3

\* Endpoints the pages request
EndpointInputs == {"/businesses/email/owner@shop", "/businesses/slug/a-z",
                   "/payment-applications"}

\* let mockApi = null; the import is started when USE_MOCK_API holds
InitClient ==
    /\ client \in {[useMockApi |-> flag, mockApi |-> None, handled |-> <<>>] :
                       flag \in BOOLEAN}
    /\ storage = EmptyStorage
    /\ ret = "ok"
    /\ rules = uiDefaultRules
    /\ pageError = NoError
    /\ storage2 = EmptyStorage
    /\ fnIn = None
    /\ fnOut = None
    /\ payment = NoPage

ClientStep(c) ==
    /\ client' = c
    /\ UNCHANGED <<storage, ret, rules, pageError, storage2, fnIn, fnOut, payment>>

\* import('./mockApi').then((module) => { mockApi = module.mockApi; })
ImportResolves ==
    /\ client.useMockApi
    /\ client.mockApi = None
    /\ ClientStep([client EXCEPT !.mockApi = Some("mockApi")])

\* api.request: the mock handles the request when USE_MOCK_API && mockApi,
\* otherwise the request is fetched from API_BASE_URL
request(c, endpoint) ==
    IF c.useMockApi /\ c.mockApi # None
    THEN [c EXCEPT !.handled = Append(@, [endpoint |-> endpoint,
                                          by |-> "mockApi.handleRequest"])]
    ELSE [c EXCEPT !.handled = Append(@, [endpoint |-> endpoint, by |-> "fetch"])]

Request ==
    /\ Len(client.handled) < MaxRequests
    /\ \E endpoint \in EndpointInputs : ClientStep(request(client, endpoint))

NextClient ==
    \/ ImportResolves
    \/ Request

SpecClient == InitClient /\ [][NextClient]_vars

-----------------------------------------------------------------------------
(* The customers of the owner's business: the business is registered, its  *)
(* payment link receives applications, among them up to MaxHistory from    *)
(* one returning customer, and the Customers page reads getCustomers.      *)

MaxHistory == 8

\* Applications of the returning customer "c@mail": the first of SubmitInputs
\* (score 50) and one with a BVN (score 100)
ReturningInputs ==
    {in \in SubmitInputs : in.form.customer_email = "c@mail"}
    \cup
    {[form |-> [customer_email |-> "c@mail", customer_bvn |-> Some("22212345678"),
                payment_type |-> "SUBSCRIPTION", total_amount |-> None,
                recurring_amount |-> Some(5000), payment_frequency |-> "monthly"],
      jitter |-> 14]}

InitCustomers ==
    /\ storage \in {registerBusiness(EmptyStorage, data).st : data \in RegisterInputs}
    /\ ret = "ok"
    /\ rules = uiDefaultRules
    /\ pageError = NoError
    /\ storage2 = EmptyStorage
    /\ client = NoClient
    /\ payment = NoPage
    /\ fnIn = None
    /\ fnOut = None

SubmitReturning ==
    /\ Len(storage.applications) < MaxHistory
    /\ \E in \in ReturningInputs, b \in DOMAIN storage.businesses :
           Done(submitApplication(storage, withBusiness(in.form, b), in.jitter))

\* The limits the pages pass: the default 5 and a shorter list
LimitInputs == {1, 5}

BusinessGetTransactions ==
    \E b \in BusinessKeys, limit \in LimitInputs :
        Done(businessApi_getTransactions(storage, b, limit))

NextCustomers ==
    \/ SubmitApplication
    \/ SubmitReturning
    \/ GetCustomers
    \/ BusinessGetTransactions

SpecCustomers == InitCustomers /\ [][NextCustomers]_vars

-----------------------------------------------------------------------------
(* The pure functions, each applied once to an input drawn in the initial  *)
(* state: fnIn is the call, fnOut its result.                              *)

\* Math.floor(Math.random() * 15) is one of 0 .. 14
JitterRange == 15
Jitters == 0 .. (JitterRange - 1)

Scores == 0 .. 100

\* Amounts on both sides of every bracket of the risk adjustment
TotalAmountInputs ==
    {None} \cup {Some(a) : a \in {0, 1, 40000, 49999, 50000, 99999,
                                  100000, 199999, 200000, 500000}}

RecurringAmountInputs ==
    {None} \cup {Some(a) : a \in {0, 5000, 60000, 250000}}

BvnInputs == {None, Some(""), Some("22212345678")}

FrequencyInputs == {"monthly", "biweekly", "weekly", "daily"}

DataInputs ==
    [business_id : {1},
     customer_email : {"c@mail"},
     customer_bvn : BvnInputs,
     payment_type : {"INSTALMENT", "SUBSCRIPTION"},
     total_amount : TotalAmountInputs,
     recurring_amount : RecurringAmountInputs,
     payment_frequency : FrequencyInputs]

\* Every setting of the four threshold sliders (min 0, max 100) to an end or
\* the middle of its range: ordered, equal and out of order
UnorderedRulesInputs ==
    {[uiDefaultRules EXCEPT !.trustedThreshold = t, !.verifiedThreshold = v,
                            !.newCustomerThreshold = n, !.restrictedThreshold = r] :
        t \in {0, 50, 100}, v \in {0, 50, 100}, n \in {0, 50, 100}, r \in {0, 50, 100}}

\* Threshold sets of the Trust Rules page: the defaults, the defaults as the
\* store returns them, and customised ones (ordered, and not).
UiRulesInputs ==
    {uiDefaultRules,
     uiFromApi(defaultRules(1)),
     [uiDefaultRules EXCEPT !.trustedThreshold = 90, !.verifiedThreshold = 70,
                            !.newCustomerThreshold = 50, !.restrictedThreshold = 10],
     [uiDefaultRules EXCEPT !.trustedThreshold = 30, !.restrictedThreshold = 65]}
    \cup UnorderedRulesInputs

NoData == CHOOSE d \in DataInputs : TRUE

FnInputs ==
    [fn : {"calculateMockTrustScore"}, data : DataInputs, jitter : Jitters,
     score : {0}, rules : {uiDefaultRules}]
    \cup
    [fn : {"getStatusFromScore", "getTrustStateName", "getTrustColor"},
     data : {NoData}, jitter : {0}, score : Scores, rules : UiRulesInputs]

InitFn ==
    /\ fnIn \in FnInputs
    /\ fnOut = None
    /\ storage = EmptyStorage
    /\ ret = "ok"
    /\ rules = fnIn.rules
    /\ pageError = NoError
    /\ storage2 = EmptyStorage
    /\ client = NoClient
    /\ payment = NoPage

Returned(v) ==
    /\ fnOut = None
    /\ fnOut' = Some(v)
    /\ UNCHANGED <<fnIn, storage, ret, rules, pageError, storage2, client, payment>>

\* The function f of the harness has returned
Called(f) == fnIn # None /\ fnIn.fn = f /\ fnOut # None

CallCalculateMockTrustScore ==
    /\ fnIn.fn = "calculateMockTrustScore"
    /\ Returned([amount |-> scoringAmount(fnIn.data),
                 base |-> baseScore(fnIn.data),
                 score |-> calculateMockTrustScore(fnIn.data, fnIn.jitter)])

CallGetStatusFromScore ==
    /\ fnIn.fn = "getStatusFromScore"
    /\ Returned(getStatusFromScore(fnIn.score))

\* The Trust Rules page rendering the tier of a score under its `rules`
CallGetTrustStateName ==
    /\ fnIn.fn = "getTrustStateName"
    /\ Returned(getTrustStateName(rules, fnIn.score))

\* The Customers page rendering a customer of that score
CallGetTrustColor ==
    /\ fnIn.fn = "getTrustColor"
    /\ Returned([bucket |-> statsBucket(fnIn.score), colour |-> getTrustColor(fnIn.score)])

NextFn ==
    \/ CallCalculateMockTrustScore
    \/ CallGetStatusFromScore
    \/ CallGetTrustStateName
    \/ CallGetTrustColor

SpecFn == InitFn /\ [][NextFn]_vars

-----------------------------------------------------------------------------
(* The schedule preview of the payment form, computed once for a form and  *)
(* payment rules drawn in the initial state.                               *)

\* 2.5
TwoAndAHalf == [m |-> <<5>>, e |-> -1]

\* 10^15
Quadrillion == FMul(FInt(1000000000), FInt(1000000))

Date(y, month, d) == [y |-> y, m |-> month - 1, d |-> d]

PaymentRulesInputs ==
    [down_payment_percentage : {FInt(0), FInt(30), FInt(33), FInt(100)},
     max_instalment_period : {1, 3, 6, 7},
     enable_fees : {FALSE},
     interest_rate : {FInt(5)}]
    \cup
    [down_payment_percentage : {FInt(0), FInt(30), FInt(33), FInt(100)},
     max_instalment_period : {1, 3, 6, 7},
     enable_fees : {TRUE},
     interest_rate : {FInt(5), TwoAndAHalf}]

ExampleRules ==
    [down_payment_percentage |-> FInt(30), max_instalment_period |-> 6,
     enable_fees |-> FALSE, interest_rate |-> FInt(5)]

StartDateInputs ==
    {Date(2025, 1, 15), Date(2025, 1, 31), Date(2024, 1, 30), Date(2025, 2, 28),
     Date(2024, 12, 29), Date(2025, 3, 31)}

ScheduleForm(paymentType, totalAmount, frequency, startDate, paymentRules) ==
    [fn |-> "getInstalmentSchedule",
     paymentType |-> paymentType, totalAmount |-> totalAmount,
     paymentFrequency |-> frequency, preferredStartDate |-> startDate,
     paymentRules |-> paymentRules]

ScheduleInputs ==
    \* amounts and rules
    {ScheduleForm("INSTALMENT", Some(amount), "monthly", Date(2025, 1, 15), Some(r)) :
        amount \in {FInt(1), FInt(100), FInt(99999), FInt(150000), Quadrillion},
        r \in PaymentRulesInputs}
    \cup
    \* start dates and frequencies
    {ScheduleForm("INSTALMENT", Some(FInt(150000)), f, d, Some(ExampleRules)) :
        f \in FrequencyInputs, d \in StartDateInputs}
    \cup
    \* no schedule
    {ScheduleForm("SUBSCRIPTION", Some(FInt(150000)), "monthly", Date(2025, 1, 15),
                  Some(ExampleRules)),
     ScheduleForm("INSTALMENT", None, "monthly", Date(2025, 1, 15), Some(ExampleRules)),
     ScheduleForm("INSTALMENT", Some(FInt(150000)), "monthly", Date(2025, 1, 15), None)}

InitSchedule ==
    /\ fnIn \in ScheduleInputs
    /\ fnOut = None
    /\ storage = EmptyStorage
    /\ ret = "ok"
    /\ rules = uiDefaultRules
    /\ pageError = NoError
    /\ storage2 = EmptyStorage
    /\ client = NoClient
    /\ payment = NoPage

\* const instalmentSchedule = getInstalmentSchedule()
CallGetInstalmentSchedule ==
    /\ fnIn.fn = "getInstalmentSchedule"
    /\ Returned(getInstalmentSchedule(fnIn))

NextSchedule == CallGetInstalmentSchedule

SpecSchedule == InitSchedule /\ [][NextSchedule]_vars

-----------------------------------------------------------------------------
(* The CustomerPayment page (payment form of a business's payment link).   *)
(* `errors`, `bankSearch` and `bankSearchOpen` are written by the handlers *)
(* and read only by the rendering; they are left out of the state, and the *)
(* validations return the errors they would set.  An awaited call is a     *)
(* pending entry that a later step completes; the continuation of          *)
(* handleVerifyBank keeps the formData of the render it was started from.  *)

MaxVerifications == 1

\* Number(text) for the texts the model types into the amount inputs
Number(text) ==
    IF text = "4000" THEN 4000
    ELSE IF text = "25000" THEN 25000
    ELSE IF text = "150000" THEN 150000
    ELSE 0

\* What the customer types or picks (a field once filled is not cleared)
FullNameInputs == {"Ada"}
ContactEmailInputs == {"c@mail.ng"}
PhoneInputs == {"08012345678"}
ServiceInputs == {"Braces"}
TotalAmountTexts == {"0", "150000"}
RecurringAmountTexts == {"4000", "25000"}
BankInputs == {"GTBank"}
AccountNumberInputs == {"0123456789", "9876543210"}

\* tomorrow.toISOString().split('T')[0]
Tomorrow == Date(2025, 1, 15)

\* useState values of a page opened with location.state.paymentType
InitialPage(paymentType) ==
    [paymentType |-> paymentType,
     currentStep |-> 1,
     business |-> None,
     paymentRules |-> None,
     loading |-> TRUE,
     submitting |-> FALSE,
     verifyingBank |-> FALSE,
     bankVerified |-> FALSE,
     formData |-> [fullName |-> "", email |-> "", phone |-> "", bvn |-> "",
                   serviceDescription |-> "", totalAmount |-> "",
                   recurringAmount |-> "", commitmentMonths |-> 0,
                   paymentFrequency |-> "monthly", preferredStartDate |-> None,
                   bankName |-> "", accountNumber |-> "", accountName |-> "",
                   agreedToTerms |-> FALSE, agreedToDebit |-> FALSE],
     loadBusinessData |-> "effect",  \* effect, getBySlug, getById or done
     verifications |-> <<>>,         \* formData of each handleVerifyBank waiting
     sent |-> None,                  \* the payload of the last handleSubmit
     posting |-> FALSE,              \* handleSubmit awaits submitApplication
     navigated |-> FALSE]

InitPayment ==
    /\ payment \in {InitialPage(t) : t \in {"INSTALMENT", "SUBSCRIPTION"}}
    /\ storage = EmptyStorage
    /\ ret = "ok"
    /\ rules = uiDefaultRules
    /\ pageError = NoError
    /\ storage2 = EmptyStorage
    /\ fnIn = None
    /\ fnOut = None
    /\ client = NoClient

PaymentStep(p) ==
    /\ payment' = p
    /\ UNCHANGED <<storage, ret, rules, pageError, storage2, fnIn, fnOut, client>>

\* The form is rendered: neither the loading nor the not-found screen, and
\* the page has not navigated to the result
FormShown == ~payment.loading /\ payment.business # None /\ ~payment.navigated

\* if (condition) newErrors[field] = message
errorIf(condition, field, message) ==
    IF condition THEN {<<field, message>>} ELSE {}

validateStep1(formData) ==
    errorIf(formData.fullName = "", "fullName",
            "Full name is required")
    \cup errorIf(formData.email = "", "email",
            "Email is required")
    \cup errorIf(formData.phone = "", "phone",
            "Phone number is required")

validateStep2(p) ==
    LET formData == p.formData
    IN  errorIf(formData.serviceDescription = "", "serviceDescription",
            "Service description is required")
        \cup {<<"totalAmount", m>> : m \in
            IF p.paymentType # "INSTALMENT" THEN {}
            ELSE IF formData.totalAmount = "" THEN {"Total amount is required"}
            ELSE IF Number(formData.totalAmount) <= 0
                 THEN {"Amount must be greater than 0"}
            ELSE IF p.paymentRules # None
                    /\ Number(formData.totalAmount) < p.paymentRules[1].min_order_value
                 THEN {"Minimum amount is"}
            ELSE {}}
        \cup {<<"recurringAmount", m>> : m \in
            IF p.paymentType # "SUBSCRIPTION" THEN {}
            ELSE IF formData.recurringAmount = "" THEN {"Monthly amount is required"}
            ELSE IF Number(formData.recurringAmount) <= 0
                 THEN {"Amount must be greater than 0"}
            ELSE IF Number(formData.recurringAmount) < 5000
                 THEN {"Minimum subscription amount is 5,000"}
            ELSE {}}
        \cup errorIf(formData.preferredStartDate = None, "preferredStartDate",
            "Please select a start date")

\* /^\d{10}$/ on the account numbers the model types
isTenDigits(accountNumber) == accountNumber # ""

validateStep3(formData) ==
    errorIf(formData.bankName = "", "bankName",
            "Please select a bank")
    \cup {<<"accountNumber", m>> : m \in
        IF formData.accountNumber = "" THEN {"Account number is required"}
        ELSE IF ~isTenDigits(formData.accountNumber)
             THEN {"Account number must be 10 digits"}
        ELSE {}}
    \cup errorIf(formData.accountName = "", "accountName",
            "Please verify your account number")
    \cup errorIf(~formData.agreedToDebit, "agreedToDebit",
            "You must authorize account debits")

\* useEffect on mount: loadBusinessData() up to its first await, then
\* setDefaultStartDate()
MountEffect ==
    /\ payment.loadBusinessData = "effect"
    /\ PaymentStep([payment EXCEPT !.loadBusinessData = "getBySlug",
                                   !.formData.preferredStartDate = Some(Tomorrow)])

\* Mutant: the rules of the business are loaded into paymentRules.
loadBusinessData_loadsRules(p) ==
    [p EXCEPT !.loadBusinessData = "done", !.loading = FALSE,
              !.paymentRules = Some([min_order_value |-> 200000,
                                     max_instalment_period |-> 6,
                                     down_payment_percentage |-> FInt(30),
                                     enable_fees |-> FALSE,
                                     interest_rate |-> FInt(5)])]

\* loadBusinessData after businessApi.getById has returned or thrown: the
\* rules data is dropped, then setLoading(false)
loadBusinessData_afterGetById(p) ==
    [p EXCEPT !.loadBusinessData = "done", !.loading = FALSE]

\* businessApi.getBySlug returns the business
GetBySlugReturns ==
    /\ payment.loadBusinessData = "getBySlug"
    /\ PaymentStep([payment EXCEPT !.business = Some(1),
                                   !.loadBusinessData = "getById"])

\* businessApi.getBySlug throws: the error is logged, then setLoading(false)
GetBySlugThrows ==
    /\ payment.loadBusinessData = "getBySlug"
    /\ PaymentStep([payment EXCEPT !.loadBusinessData = "done", !.loading = FALSE])

GetByIdSettles ==
    /\ payment.loadBusinessData = "getById"
    /\ PaymentStep(loadBusinessData_afterGetById(payment))

ChangeFullName ==
    /\ FormShown /\ payment.currentStep = 1
    /\ \E v \in FullNameInputs : PaymentStep([payment EXCEPT !.formData.fullName = v])

ChangeEmail ==
    /\ FormShown /\ payment.currentStep = 1
    /\ \E v \in ContactEmailInputs : PaymentStep([payment EXCEPT !.formData.email = v])

ChangePhone ==
    /\ FormShown /\ payment.currentStep = 1
    /\ \E v \in PhoneInputs : PaymentStep([payment EXCEPT !.formData.phone = v])

ChangeServiceDescription ==
    /\ FormShown /\ payment.currentStep = 2
    /\ \E v \in ServiceInputs :
           PaymentStep([payment EXCEPT !.formData.serviceDescription = v])

ChangeTotalAmount ==
    /\ FormShown /\ payment.currentStep = 2 /\ payment.paymentType = "INSTALMENT"
    /\ \E v \in TotalAmountTexts :
           PaymentStep([payment EXCEPT !.formData.totalAmount = v])

\* The amount input of step 2 and the one of the review of step 4
ChangeRecurringAmount ==
    /\ FormShown /\ payment.currentStep \in {2, 4}
    /\ payment.paymentType = "SUBSCRIPTION"
    /\ \E v \in RecurringAmountTexts :
           PaymentStep([payment EXCEPT !.formData.recurringAmount = v])

SelectBank ==
    /\ FormShown /\ payment.currentStep = 3
    /\ \E bank \in BankInputs :
           PaymentStep([payment EXCEPT !.formData.bankName = bank,
                                       !.formData.accountName = "",
                                       !.bankVerified = FALSE])

ChangeAccountNumber ==
    /\ FormShown /\ payment.currentStep = 3
    /\ \E cleaned \in AccountNumberInputs :
           PaymentStep([payment EXCEPT !.formData.accountNumber = cleaned,
                                       !.formData.accountName = "",
                                       !.bankVerified = FALSE])

\* onBlur of the account number: handleVerifyBank up to its await
handleVerifyBank(p) ==
    IF ~isTenDigits(p.formData.accountNumber) THEN p
    ELSE [p EXCEPT !.verifyingBank = TRUE,
                   !.verifications = Append(@, p.formData)]

\* handleVerifyBank after its await, with the formData of its render
verified(p) ==
    LET formData == Head(p.verifications)
        mockAccountName == IF formData.fullName # "" THEN formData.fullName
                           ELSE "Account Holder Name"
    IN  [p EXCEPT !.formData = [formData EXCEPT !.accountName = mockAccountName],
                  !.bankVerified = TRUE,
                  !.verifyingBank = FALSE,
                  !.verifications = Tail(@)]

BlurAccountNumber ==
    /\ FormShown /\ payment.currentStep = 3
    /\ Len(payment.verifications) < MaxVerifications
    /\ PaymentStep(handleVerifyBank(payment))

VerifyBankReturns ==
    /\ ~payment.navigated
    /\ payment.verifications # <<>>
    /\ PaymentStep(verified(payment))

ChangeAgreedToDebit ==
    /\ FormShown /\ payment.currentStep = 3
    /\ \E checked \in BOOLEAN :
           PaymentStep([payment EXCEPT !.formData.agreedToDebit = checked])

ChangeAgreedToTerms ==
    /\ FormShown /\ payment.currentStep = 4
    /\ \E checked \in BOOLEAN :
           PaymentStep([payment EXCEPT !.formData.agreedToTerms = checked])

handleNext(p) ==
    IF p.currentStep = 1 /\ validateStep1(p.formData) = {}
    THEN [p EXCEPT !.currentStep = 2]
    ELSE IF p.currentStep = 2 /\ validateStep2(p) = {}
    THEN [p EXCEPT !.currentStep = 3]
    ELSE IF p.currentStep = 3 /\ validateStep3(p.formData) = {}
    THEN [p EXCEPT !.currentStep = 4]
    ELSE p

handleBack(p) ==
    IF p.currentStep > 1 THEN [p EXCEPT !.currentStep = @ - 1] ELSE p

\* The Next button is rendered on the steps before the last
HandleNext ==
    /\ FormShown /\ payment.currentStep < 4
    /\ PaymentStep(handleNext(payment))

\* The Back button is disabled on step 1
HandleBack ==
    /\ FormShown /\ payment.currentStep # 1
    /\ PaymentStep(handleBack(payment))

\* The Edit buttons of the review: setCurrentStep(1), (2) and (3)
Edit ==
    /\ FormShown /\ payment.currentStep = 4
    /\ \E step \in {1, 2, 3} : PaymentStep([payment EXCEPT !.currentStep = step])

\* The payload handleSubmit builds ("Build properly typed payload")
payloadOf(p) ==
    [business_id |-> p.business[1],
     customer_email |-> p.formData.email,
     customer_bvn |-> IF p.formData.bvn # "" THEN Some(p.formData.bvn) ELSE None,
     payment_type |-> p.paymentType,
     payment_frequency |-> p.formData.paymentFrequency,
     total_amount |-> IF p.paymentType = "INSTALMENT"
                      THEN Some(Number(p.formData.totalAmount)) ELSE None,
     recurring_amount |-> IF p.paymentType = "SUBSCRIPTION"
                          THEN Some(Number(p.formData.recurringAmount)) ELSE None,
     commitment_months |-> IF p.paymentType = "SUBSCRIPTION"
                           THEN Some(p.formData.commitmentMonths) ELSE None]

\* handleSubmit up to its await
handleSubmit(p) ==
    IF ~p.formData.agreedToTerms THEN p
    ELSE IF p.business = None THEN p
    ELSE [p EXCEPT !.submitting = TRUE, !.sent = Some(payloadOf(p)), !.posting = TRUE]

\* The Submit button is disabled while submitting or without the terms
HandleSubmit ==
    /\ FormShown /\ payment.currentStep = 4
    /\ ~payment.submitting /\ payment.formData.agreedToTerms
    /\ PaymentStep(handleSubmit(payment))

\* paymentApi.submitApplication returns: navigate to the result page
SubmitReturns ==
    /\ payment.posting /\ ~payment.navigated
    /\ PaymentStep([payment EXCEPT !.posting = FALSE, !.submitting = FALSE,
                                   !.navigated = TRUE])

\* paymentApi.submitApplication throws: the error is shown
SubmitThrows ==
    /\ payment.posting /\ ~payment.navigated
    /\ PaymentStep([payment EXCEPT !.posting = FALSE, !.submitting = FALSE])

\* const instalmentSchedule = getInstalmentSchedule() of a render
instalmentSchedule(p) ==
    getInstalmentSchedule(
        ScheduleForm(p.paymentType,
                     IF p.formData.totalAmount = "" THEN None
                     ELSE Some(FInt(Number(p.formData.totalAmount))),
                     p.formData.paymentFrequency,
                     IF p.formData.preferredStartDate = None THEN Tomorrow
                     ELSE p.formData.preferredStartDate[1],
                     p.paymentRules))

NextPayment ==
    \/ MountEffect
    \/ GetBySlugReturns
    \/ GetBySlugThrows
    \/ GetByIdSettles
    \/ ChangeFullName
    \/ ChangeEmail
    \/ ChangePhone
    \/ ChangeServiceDescription
    \/ ChangeTotalAmount
    \/ ChangeRecurringAmount
    \/ SelectBank
    \/ ChangeAccountNumber
    \/ BlurAccountNumber
    \/ VerifyBankReturns
    \/ ChangeAgreedToDebit
    \/ ChangeAgreedToTerms
    \/ HandleNext
    \/ HandleBack
    \/ Edit
    \/ HandleSubmit
    \/ SubmitReturns
    \/ SubmitThrows

SpecPayment == InitPayment /\ [][NextPayment]_vars

-----------------------------------------------------------------------------
(* The Trust Rules page of the logged-in owner (user.email = UserEmail)    *)
(* over the store, with customers submitting applications to the owner's   *)
(* businesses.  Each handler runs to completion as one step.               *)

ThresholdKeys ==
    {"trustedThreshold", "verifiedThreshold", "newCustomerThreshold",
     "restrictedThreshold", "autoApproveAbove", "autoDeclineBelow"}

\* A position of a range input (min 0, max 100) other than the defaults
SliderInputs == {55}

PageStep(st, r, lastRet, err) ==
    /\ storage' = st
    /\ rules' = r
    /\ ret' = lastRet
    /\ pageError' = err
    /\ UNCHANGED <<storage2, fnIn, fnOut, client, payment>>

LoadRules ==
    LET found == getBusinessByEmail(storage, UserEmail)
        got == getTrustRules(found.st, found.val.id)
    IN  IF found.ret # "ok"
        THEN PageStep(storage, rules, found.ret,
                      [pageError EXCEPT !.message = Some(found.ret)])
        ELSE PageStep(got.st, uiFromApi(got.val), got.ret, pageError)

\* onChange of a threshold slider: setRules({ ...rules, [key]: Number(value) })
SetThreshold ==
    \E key \in ThresholdKeys, v \in SliderInputs :
        /\ rules[key] # v
        /\ PageStep(storage, [rules EXCEPT ![key] = v], ret, pageError)

HandleReset ==
    /\ rules # uiDefaultRules
    /\ PageStep(storage, uiDefaultRules, ret, pageError)

HandleSave ==
    LET found == getBusinessByEmail(storage, UserEmail)
        saved == updateTrustRules(found.st, found.val.id, apiFromUi(found.val.id, rules))
    IN  IF found.ret # "ok"
        THEN PageStep(storage, rules, found.ret,
                      [message |-> Some(found.ret), clearPending |-> TRUE])
        ELSE PageStep(saved.st, rules, saved.ret, pageError)

\* setTimeout(() => setError(null), 5000); a later timer may still be pending
ErrorTimeout ==
    /\ pageError.clearPending
    /\ \E more \in BOOLEAN :
           PageStep(storage, rules, ret, [message |-> None, clearPending |-> more])

NextRules ==
    \/ RegisterBusiness
    \/ SubmitApplicationTo(DOMAIN storage.businesses)
    \/ LoadRules
    \/ SetThreshold
    \/ HandleReset
    \/ HandleSave
    \/ ErrorTimeout

SpecRules == Init /\ [][NextRules]_vars

-----------------------------------------------------------------------------
(* Two runs of the store that receive the same registrations and the same  *)
(* submissions (with the same random factor) and differ only in the trust  *)
(* rules stored: storage is the first run, storage2 the second.            *)

PairRuleInputs == RuleInputs \cup {defaultRules(UnknownId)}

PairStep(r1, r2) ==
    /\ storage' = r1.st
    /\ storage2' = r2.st
    /\ ret' = r1.ret
    /\ UNCHANGED <<rules, pageError, fnIn, fnOut, client, payment>>

PairRegisterBusiness ==
    /\ Len(storage.businesses) < MaxBusinesses
    /\ \E data \in RegisterInputs :
           PairStep(registerBusiness(storage, data), registerBusiness(storage2, data))

PairUpdateTrustRules ==
    \E b \in BusinessKeys, r1 \in PairRuleInputs, r2 \in PairRuleInputs :
        PairStep(updateTrustRules(storage, b, r1), updateTrustRules(storage2, b, r2))

PairSubmitApplication ==
    /\ Len(storage.applications) < MaxApps
    /\ \E in \in SubmitInputs, b \in BusinessKeys :
           PairStep(submitApplication(storage, withBusiness(in.form, b), in.jitter),
                    submitApplication(storage2, withBusiness(in.form, b), in.jitter))

NextPair ==
    \/ PairRegisterBusiness
    \/ PairUpdateTrustRules
    \/ PairSubmitApplication

SpecPair == Init /\ [][NextPair]_vars

-----------------------------------------------------------------------------
(* Claims checked under Spec *)

Applications == {storage.applications[i] : i \in DOMAIN storage.applications}

C1_StatusMatchesScore ==
    \A a \in Applications :
        /\ a.trust_score >= 70 => a.status = "approved"
        /\ (a.trust_score >= 40 /\ a.trust_score <= 69) => a.status = "under_review"
        /\ a.trust_score < 40 => a.status = "declined"

C1_NeverRecomputed ==
    \A i \in DOMAIN storage.applications :
        /\ i \in DOMAIN storage'.applications
        /\ storage'.applications[i].status = storage.applications[i].status
        /\ storage'.applications[i].trust_score = storage.applications[i].trust_score

C3_ScoreInRange ==
    \A a \in Applications : a.trust_score \in 0..100

\* A stored application whose score before clamping was 114.
C3_Witness ==
    \E a \in Applications :
        /\ a.trust_score = 100
        /\ \E in \in SubmitInputs :
               /\ a = submitApplication(EmptyStorage, withBusiness(in.form, a.business_id),
                                        in.jitter).val
               /\ baseScore(in.form) + in.jitter > 100

\* The rules registerBusiness would store for a business registered now,
\* with the business id replaced by b
C11_RegisteredRules(b) ==
    {[reg.st.trustRules[reg.val.id] EXCEPT !.business_id = b] :
        reg \in {registerBusiness(storage, data) : data \in RegisterInputs}}

\* C11: getTrustRules for a business id with no stored config returns the
\* defaults 80/60/40/20 and 70/30 and stores them, so that a second
\* getTrustRules returns the same record and changes nothing; the defaults
\* are those registerBusiness creates for a new business.
C11_DefaultsCreatedOnRead ==
    \A b \in BusinessKeys :
        b \notin DOMAIN storage.trustRules =>
            LET first == getTrustRules(storage, b)
                second == getTrustRules(first.st, b)
            IN  /\ first.ret = "ok"
                /\ first.val.business_id = b
                /\ first.val.trusted_min = 80 /\ first.val.verified_min = 60
                /\ first.val.new_min = 40 /\ first.val.restricted_min = 20
                /\ first.val.auto_approve_threshold = 70
                /\ first.val.auto_decline_threshold = 30
                /\ b \in DOMAIN first.st.trustRules
                /\ first.st.trustRules[b] = first.val
                /\ second.ret = "ok" /\ second.val = first.val
                /\ second.st = first.st
                /\ C11_RegisteredRules(b) = {first.val}

\* getTrustRules has stored the defaults for an id that is no business's,
\* next to a registered business that still has the rules of registration.
C11_Witness ==
    /\ UnknownId \in DOMAIN storage.trustRules
    /\ storage.trustRules[UnknownId] = missingRules(UnknownId)
    /\ \E b \in DOMAIN storage.businesses :
           [storage.trustRules[b] EXCEPT !.business_id = UnknownId]
               = storage.trustRules[UnknownId]

C12_TypeOf(status) ==
    CASE status = "approved" -> "application_approved"
      [] status = "declined" -> "application_declined"
      [] status = "under_review" -> "application_under_review"

C12_NotificationsOf(st, a) ==
    {n \in DOMAIN st.notifications : st.notifications[n].related_id = a.id}

\* Every application has exactly one notification, addressed to its business
\* and of the type of its status, and every notification is some application's.
C12_OneToOne ==
    /\ \A a \in Applications :
           /\ Cardinality(C12_NotificationsOf(storage, a)) = 1
           /\ \A n \in C12_NotificationsOf(storage, a) :
                  /\ storage.notifications[n].business_id = a.business_id
                  /\ storage.notifications[n].type = C12_TypeOf(a.status)
    /\ \A n \in DOMAIN storage.notifications :
           \E a \in Applications : storage.notifications[n].related_id = a.id

\* A step keeps every notification (only its read flag may change), and adds
\* one unread notification per application it adds and no other.
C12_Step ==
    LET old == DOMAIN storage.notifications
        new == (DOMAIN storage'.notifications) \ old
        newApps == (DOMAIN storage'.applications) \ (DOMAIN storage.applications)
    IN  /\ old \subseteq DOMAIN storage'.notifications
        /\ \A n \in old :
               [storage'.notifications[n] EXCEPT !.read = FALSE]
                   = [storage.notifications[n] EXCEPT !.read = FALSE]
        /\ Cardinality(new) = Cardinality(newApps)
        /\ \A i \in newApps :
               LET a == storage'.applications[i]
               IN  \E n \in new :
                       /\ C12_NotificationsOf(storage', a) = {n}
                       /\ storage'.notifications[n].business_id = a.business_id
                       /\ storage'.notifications[n].read = FALSE
                       /\ storage'.notifications[n].type = C12_TypeOf(a.status)

\* C12: every submitApplication creates exactly one notification, with the
\* application's business_id, related_id the new application's id, read =
\* false and the type of the application's status; no other operation creates
\* or deletes notifications, so notifications and applications correspond
\* one to one through related_id in every reachable state.
C12_OneNotificationPerApplication ==
    []C12_OneToOne /\ [][C12_Step]_vars

\* An approved and an under_review application, each with its notification,
\* the first of them already read.
C12_Witness ==
    /\ Len(storage.applications) = 2
    /\ Len(storage.notifications) = 2
    /\ storage.applications[1].status = "approved"
    /\ storage.applications[2].status = "under_review"
    /\ storage.notifications[1].type = "application_approved"
    /\ storage.notifications[1].read
    /\ storage.notifications[2].type = "application_under_review"
    /\ ~storage.notifications[2].read

\* C13: a submitApplication whose business_id matches no registered business
\* fails and stores neither an application nor a notification, so that every
\* stored application and every notification belongs to a registered business.
C13_UnknownBusinessRejected ==
    /\ \A a \in Applications : a.business_id \in DOMAIN storage.businesses
    /\ \A n \in DOMAIN storage.notifications :
           storage.notifications[n].business_id \in DOMAIN storage.businesses

C14_NotFound(r, message) ==
    r.ret = message /\ r.val = None /\ r.st = storage

C14_UnknownKeys ==
    /\ \A id \in BusinessKeys \ DOMAIN storage.businesses :
           /\ C14_NotFound(getBusinessById(storage, id), "Business not found")
           /\ \A slug \in SlugInputs :
                  C14_NotFound(updateSlug(storage, id, slug), "Business not found")
    /\ \A slug \in SlugInputs :
           (\A b \in DOMAIN storage.businesses : storage.businesses[b].payment_slug # slug)
               => C14_NotFound(getBusinessBySlug(storage, slug), "Business not found")
    /\ \A email \in EmailInputs :
           (\A b \in DOMAIN storage.businesses : storage.businesses[b].email # email)
               => C14_NotFound(getBusinessByEmail(storage, email), "Business not found")
    /\ \A id \in ApplicationKeys \ DOMAIN storage.applications :
           C14_NotFound(getApplicationById(storage, id), "Payment application not found")
    /\ \A id \in NotificationKeys \ DOMAIN storage.notifications :
           C14_NotFound(markNotificationAsRead(storage, id), "Notification not found")

C14_FailureChangesNothing ==
    ret' # "ok" => storage' = storage

\* C14: getBusinessById, getBusinessBySlug, getBusinessByEmail,
\* getApplicationById, updateSlug and markNotificationAsRead, called with a
\* key that matches no stored record, fail with a not-found error and leave
\* the businesses, applications, trust rules and notifications unchanged.
C14_NotFoundLeavesStore ==
    []C14_UnknownKeys /\ [][C14_FailureChangesNothing]_vars

\* A call with an unknown key has failed on a store that holds a business,
\* an application and a notification.
C14_Witness ==
    /\ ret \in {"Business not found", "Payment application not found",
                "Notification not found"}
    /\ storage.businesses # <<>>
    /\ storage.applications # <<>>
    /\ storage.notifications # <<>>

C24_Supplied(bvn) == bvn # None /\ bvn # Some("")

C24_NotDeclined(application) ==
    /\ application.trust_score >= 50
    /\ application.status \in {"approved", "under_review"}
    /\ C24_Supplied(application.customer_bvn) => application.status = "approved"

\* No stored application is declined, no notification tells of a declined
\* one and no business has failed payments in its statistics
C24_NoDeclineStored ==
    /\ \A a \in DOMAIN storage.applications :
           C24_NotDeclined(storage.applications[a])
    /\ \A n \in DOMAIN storage.notifications :
           storage.notifications[n].type # "application_declined"
    /\ \A b \in BusinessKeys : getStats(storage, b).val.failedPayments = 0

\* Whatever payload and random factor the first submission has, it is not
\* declined
C24_NoDeclineOfAnyInput ==
    \A data \in DataInputs, jitter \in Jitters :
        LET r == submitApplication(storage, data, jitter)
        IN  /\ calculateMockTrustScore(data, jitter) >= 50
            /\ C24_NotDeclined(r.val)
            /\ \A n \in DOMAIN r.st.notifications :
                   r.st.notifications[n].type # "application_declined"
            /\ getStats(r.st, data.business_id).val.failedPayments = 0

-----------------------------------------------------------------------------
(* Claim checked under SpecPayloads *)

\* C15: a submitApplication whose payload lacks the amount field of its
\* payment type (INSTALMENT without total_amount, SUBSCRIPTION without
\* recurring_amount) is rejected and stores nothing, so that every stored
\* application carries the amount of its payment type, and so does the
\* application every notification refers to.
C15_MissingAmountRejected ==
    /\ \A a \in Applications :
           /\ a.payment_type = "INSTALMENT" => a.total_amount # None
           /\ a.payment_type = "SUBSCRIPTION" => a.recurring_amount # None
    /\ \A n \in DOMAIN storage.notifications :
           LET a == storage.applications[storage.notifications[n].related_id]
           IN  /\ a.payment_type = "INSTALMENT" => a.total_amount # None
               /\ a.payment_type = "SUBSCRIPTION" => a.recurring_amount # None

-----------------------------------------------------------------------------
(* Claims checked under SpecSchedule *)

Zero == FInt(0)

\* total_amount > 0, down_payment_percentage in 0..100, N >= 1
C17_Valid(form) ==
    /\ form.paymentType = "INSTALMENT"
    /\ form.totalAmount # None /\ FCmp(form.totalAmount[1], Zero) = 1
    /\ form.paymentRules # None
    /\ FCmp(form.paymentRules[1].down_payment_percentage, FInt(100)) <= 0
    /\ form.paymentRules[1].max_instalment_period >= 1

C17_Example(form) ==
    /\ form.totalAmount = Some(FInt(150000))
    /\ form.paymentRules # None
    /\ form.paymentRules[1].down_payment_percentage = FInt(30)
    /\ form.paymentRules[1].max_instalment_period = 6
    /\ ~form.paymentRules[1].enable_fees

\* The schedule returned for the form of the harness
C17_Returned == fnOut[1][1]

\* C17: for total_amount > 0, down_payment_percentage in 0..100 and N >= 1
\* getInstalmentSchedule returns downPayment = total_amount*pct/100,
\* totalInterest = (enable_fees ? (total_amount - downPayment)*rate/100 : 0)*N,
\* installmentAmount = (total_amount - downPayment + totalInterest)/N and
\* total = total_amount + totalInterest; with enable_fees = false
\* totalInterest = 0 and total = total_amount; 150000, 30%, N = 6 without
\* fees gives 45000, 17500 and 150000.
C17_ScheduleAmounts ==
    (Called("getInstalmentSchedule") /\ C17_Valid(fnIn)) =>
        LET out == C17_Returned
            r == fnIn.paymentRules[1]
            T == fnIn.totalAmount[1]
            N == FInt(r.max_instalment_period)
            down == FDiv(FMul(T, r.down_payment_percentage), FInt(100))
            perPeriod == IF r.enable_fees
                         THEN FDiv(FMul(FSub(T, down), r.interest_rate), FInt(100))
                         ELSE Zero
            interest == FMul(perPeriod, N)
        IN  /\ fnOut[1] # None
            /\ out.downPayment = down
            /\ out.totalInterest = interest
            /\ out.installmentAmount = FDiv(FAdd(FSub(T, down), interest), N)
            /\ out.total = FAdd(T, interest)
            /\ ~r.enable_fees => (out.totalInterest = Zero /\ out.total = T)
            /\ C17_Example(fnIn) =>
                   /\ out.downPayment = FInt(45000)
                   /\ out.installmentAmount = FInt(17500)
                   /\ out.total = FInt(150000)

\* The example of the claim has been computed, and so has a schedule with
\* interest over several instalments.
C17_Witness ==
    /\ Called("getInstalmentSchedule")
    /\ \/ /\ C17_Example(fnIn)
          /\ C17_Returned.downPayment = FInt(45000)
          /\ C17_Returned.installmentAmount = FInt(17500)
       \/ /\ C17_Valid(fnIn)
          /\ fnIn.paymentRules[1].enable_fees
          /\ fnIn.paymentRules[1].max_instalment_period = 6
          /\ FCmp(C17_Returned.totalInterest, Zero) = 1

\* The running sums 0, a1, a1 + a2, ... of the amounts of the entries
RECURSIVE C18_RunningSums(_)
C18_RunningSums(schedule) ==
    IF schedule = <<>> THEN <<Zero>>
    ELSE LET sums == C18_RunningSums(SubSeq(schedule, 1, Len(schedule) - 1))
         IN  Append(sums, FAdd(sums[Len(sums)], schedule[Len(schedule)].amount))

\* schedule.reduce((sum, payment) => sum + payment.amount, 0)
C18_SumOfAmounts(schedule) ==
    LET sums == C18_RunningSums(schedule) IN sums[Len(sums)]

C18_SumPlusDownPayment(out) == FAdd(C18_SumOfAmounts(out.schedule), out.downPayment)

\* |x - y| <= 1e-6 * total, compared exactly
WithinRounding(x, y, total) ==
    LET a == FAligned(x, y)
        diff == IF BCmp(a.x, a.y) >= 0 THEN BSub(a.x, a.y) ELSE BSub(a.y, a.x)
        scaled == [m |-> BMul(diff, BigOf(1000000)), e |-> a.e]
    IN  FCmp(scaled, total) <= 0

\* C18 as stated: for total_amount > 0, N >= 1, down_payment_percentage in
\* 0..100 and any fee setting, the sum of the amounts of all schedule entries
\* plus downPayment equals the returned total.
C18_SumEqualsTotal ==
    (Called("getInstalmentSchedule") /\ C17_Valid(fnIn)) =>
        C18_SumPlusDownPayment(C17_Returned) = C17_Returned.total

\* C18 as amended: the sum of the amounts of all schedule entries plus
\* downPayment equals the returned total up to floating-point rounding: they
\* differ by at most 1e-6 times the total.
C18_SumWithinTolerance ==
    (Called("getInstalmentSchedule") /\ C17_Valid(fnIn)) =>
        WithinRounding(C18_SumPlusDownPayment(C17_Returned), C17_Returned.total,
                   C17_Returned.total)

\* A schedule whose instalment is a rounded quotient (100 over 6
\* instalments): the sum differs from the total, within the tolerance.
C18_Witness ==
    /\ Called("getInstalmentSchedule")
    /\ C17_Valid(fnIn)
    /\ fnIn.totalAmount = Some(FInt(100))
    /\ fnIn.paymentRules[1].max_instalment_period = 6
    /\ C18_SumPlusDownPayment(C17_Returned) # C17_Returned.total
    /\ WithinRounding(C18_SumPlusDownPayment(C17_Returned), C17_Returned.total,
                  C17_Returned.total)

\* Days from 1 January of year 1 to the date
C19_DayNumber(date) ==
    LET y == date.y - 1
    IN  365 * y + (y \div 4) - (y \div 100) + (y \div 400)
        + (LET before == {k \in 0..11 : k < date.m}
               RECURSIVE total(_)
               total(S) == IF S = {} THEN 0
                           ELSE LET k == CHOOSE k \in S : TRUE
                                IN  daysInMonth(date.y, k) + total(S \ {k})
           IN  total(before))
        + date.d

C19_MonthNumber(date) == 12 * date.y + date.m

C19_DaysOf(frequency) ==
    CASE frequency = "daily" -> 1 [] frequency = "weekly" -> 7
      [] frequency = "biweekly" -> 14

\* C19: the schedule has exactly N entries numbered 1..N, each of amount
\* installmentAmount; entry 1 is dated the start date; for daily, weekly and
\* biweekly frequency entry i is dated start + (i-1)*1, 7 and 14 days; for
\* monthly frequency entry i falls in the calendar month (i-1) months after
\* the start month, for every start date; dates are strictly increasing.
C19_ScheduleDates ==
    (Called("getInstalmentSchedule") /\ C17_Valid(fnIn)) =>
        LET out == C17_Returned
            N == fnIn.paymentRules[1].max_instalment_period
            start == fnIn.preferredStartDate
            frequency == fnIn.paymentFrequency
        IN  /\ Len(out.schedule) = N
            /\ \A i \in 1..N :
                   /\ out.schedule[i].number = i
                   /\ out.schedule[i].amount = out.installmentAmount
                   /\ frequency # "monthly" =>
                          C19_DayNumber(out.schedule[i].date)
                              = C19_DayNumber(start) + (i - 1) * C19_DaysOf(frequency)
                   /\ frequency = "monthly" =>
                          C19_MonthNumber(out.schedule[i].date)
                              = C19_MonthNumber(start) + (i - 1)
            /\ out.schedule[1].date = start
            /\ \A i \in 1..(N - 1) :
                   C19_DayNumber(out.schedule[i].date)
                       < C19_DayNumber(out.schedule[i + 1].date)

-----------------------------------------------------------------------------
(* Claim checked under SpecRegistry *)

C22_SlugsDistinct ==
    \A i \in DOMAIN storage.businesses : \A j \in DOMAIN storage.businesses :
        storage.businesses[i].payment_slug = storage.businesses[j].payment_slug
            => i = j

\* After a successful updateSlug(id, s), getBusinessBySlug(s) returns the
\* business with that id
C22_UpdatedSlugFindsBusiness ==
    \A id \in DOMAIN storage.businesses, s \in SlugInputs :
        (storage' = updateSlug(storage, id, s).st /\ storage' # storage)
            => /\ getBusinessBySlug(storage', s).ret = "ok"
               /\ getBusinessBySlug(storage', s).val.id = id

\* C22: in every reachable state of the business registry no two businesses
\* have the same payment_slug, under any sequence of registerBusiness and
\* updateSlug calls, so getBusinessBySlug(s) identifies at most one business
\* and after updateSlug(id, s) it returns the business with that id.
C22_PaymentSlugUnique ==
    []C22_SlugsDistinct /\ [][C22_UpdatedSlugFindsBusiness]_vars

-----------------------------------------------------------------------------
(* Claim checked under SpecClient *)

\* C23: when the mock API is enabled (VITE_USE_MOCK_API = 'true'), every
\* api.request is handled by mockApi.handleRequest and never issues a network
\* fetch, including a request issued before the dynamic import of the mock
\* module has resolved.
C23_MockHandlesEveryRequest ==
    client.useMockApi =>
        \A i \in DOMAIN client.handled :
            client.handled[i].by = "mockApi.handleRequest"

-----------------------------------------------------------------------------
(* Claims checked under SpecCustomers *)

\* C21: businessApi.getTransactions(businessId, limit) returns the most
\* recent applications of that business, ordered by created_at with the
\* newest first, and at most `limit` of them (default 5), for any number of
\* stored applications.
C21_NewestFirstAtMostLimit ==
    \A b \in BusinessKeys, limit \in LimitInputs :
        LET out == businessApi_getTransactions(storage, b, limit).val
            mine == applicationsOf(storage, b)
            returned == {out[i].id : i \in DOMAIN out}
        IN  /\ Len(out) = Min(limit, Len(mine))
            /\ Cardinality(returned) = Len(out)
            /\ \A i \in DOMAIN out : \A j \in DOMAIN out :
                   i < j => out[i].created_at >= out[j].created_at
            /\ \A i \in DOMAIN out : \A k \in DOMAIN mine :
                   mine[k].id \notin returned
                       => mine[k].created_at <= out[i].created_at

\* The applications among `applications` submitted with `email`
RECURSIVE C20_ApplicationsOf(_, _)
C20_ApplicationsOf(applications, email) ==
    IF applications = <<>> THEN <<>>
    ELSE LET app == Head(applications)
             others == C20_ApplicationsOf(Tail(applications), email)
         IN  IF app.customer_email = email THEN <<app>> \o others ELSE others

C20_Amount(app) ==
    IF app.total_amount # None THEN app.total_amount[1]
    ELSE IF app.recurring_amount # None THEN app.recurring_amount[1]
    ELSE 0

RECURSIVE C20_SumOfScores(_)
C20_SumOfScores(applications) ==
    IF applications = <<>> THEN 0
    ELSE Head(applications).trust_score + C20_SumOfScores(Tail(applications))

RECURSIVE C20_SumOfAmounts(_)
C20_SumOfAmounts(applications) ==
    IF applications = <<>> THEN 0
    ELSE C20_Amount(Head(applications)) + C20_SumOfAmounts(Tail(applications))

RECURSIVE C20_SumOfPayments(_)
C20_SumOfPayments(customers) ==
    IF customers = <<>> THEN 0
    ELSE Head(customers).total_payments + C20_SumOfPayments(Tail(customers))

C20_Emails(records) == {records[i].customer_email : i \in DOMAIN records}

\* One entry per distinct customer_email of the business's applications, and
\* the total_payments of the entries sum to the number of those applications
C20_OneEntryPerEmail(customers, applications) ==
    /\ C20_Emails(customers) = C20_Emails(applications)
    /\ Cardinality(C20_Emails(customers)) = Len(customers)
    /\ C20_SumOfPayments(customers) = Len(applications)

\* The counts, the amount and the date of one entry against the customer's
\* applications `mine`
C20_Counted(customer, mine) ==
    /\ customer.total_payments = Len(mine)
    /\ customer.successful_payments
           = Cardinality({i \in DOMAIN mine : mine[i].status = "approved"})
    /\ customer.total_amount_paid = C20_SumOfAmounts(mine)
    /\ \E i \in DOMAIN mine : customer.last_payment_date = mine[i].created_at
    /\ \A i \in DOMAIN mine : customer.last_payment_date >= mine[i].created_at

\* average_trust_score * total_payments in the arithmetic of the program
C20_ScoreProduct(customer) ==
    FMul(customer.average_trust_score, FInt(customer.total_payments))

C20_MeanExact(customer, mine) ==
    C20_ScoreProduct(customer) = FInt(C20_SumOfScores(mine))

C20_MeanRounded(customer, mine) ==
    WithinRounding(C20_ScoreProduct(customer), FInt(C20_SumOfScores(mine)),
                   FInt(C20_SumOfScores(mine)))

\* C20 as stated: getCustomers(B) returns one entry per distinct
\* customer_email among the applications of business B and for each entry
\* total_payments is the number of that customer's applications,
\* successful_payments the number of them that are approved,
\* average_trust_score * total_payments the sum of their trust scores,
\* total_amount_paid the sum of their amounts and last_payment_date the
\* latest created_at; the total_payments of all entries sum to the number of
\* B's applications, in whatever order the applications were submitted.
C20_CustomerAggregates ==
    \A b \in BusinessKeys :
        LET customers == getCustomers(storage, b).val
            applications == applicationsOf(storage, b)
        IN  /\ C20_OneEntryPerEmail(customers, applications)
            /\ \A i \in DOMAIN customers :
                   LET mine == C20_ApplicationsOf(applications,
                                                  customers[i].customer_email)
                   IN  /\ C20_Counted(customers[i], mine)
                       /\ C20_MeanExact(customers[i], mine)

\* C20 as amended: the same, with average_trust_score * total_payments equal
\* to the sum of the customer's trust scores up to floating-point rounding:
\* the two differ by at most 1e-6 times the sum.
C20_CustomerAggregatesRounded ==
    \A b \in BusinessKeys :
        LET customers == getCustomers(storage, b).val
            applications == applicationsOf(storage, b)
        IN  /\ C20_OneEntryPerEmail(customers, applications)
            /\ \A i \in DOMAIN customers :
                   LET mine == C20_ApplicationsOf(applications,
                                                  customers[i].customer_email)
                   IN  /\ C20_Counted(customers[i], mine)
                       /\ C20_MeanRounded(customers[i], mine)

\* A business with two customers, one of them with applications approved and
\* not approved, whose mean times their number is not the sum of the scores
C20_Witness ==
    \E b \in DOMAIN storage.businesses :
        LET customers == getCustomers(storage, b).val
            applications == applicationsOf(storage, b)
        IN  /\ Len(customers) = 2
            /\ \E i \in DOMAIN customers :
                   LET mine == C20_ApplicationsOf(applications,
                                                  customers[i].customer_email)
                   IN  /\ customers[i].successful_payments > 0
                       /\ customers[i].successful_payments < Len(mine)
                       /\ ~C20_MeanExact(customers[i], mine)
                       /\ C20_MeanRounded(customers[i], mine)

-----------------------------------------------------------------------------
(* Claims checked under SpecPayment *)

C26_NoMinimumError(p) ==
    \A e \in validateStep2(p) : e[2] # "Minimum amount is"

\* C26: in every reachable state of the CustomerPayment page paymentRules is
\* null (no transition ever sets it), so getInstalmentSchedule returns null
\* for every form content and the minimum-order-value check of validateStep2
\* never rejects an amount.
C26_PaymentRulesNull ==
    /\ payment.paymentRules = None
    /\ instalmentSchedule(payment) = None
    /\ C26_NoMinimumError(payment)
    /\ \A text \in TotalAmountTexts :
           LET typed == [payment EXCEPT !.formData.totalAmount = text]
           IN  /\ instalmentSchedule(typed) = None
               /\ C26_NoMinimumError(typed)

\* The business is loaded and an instalment form with an amount has passed
\* the validation of step 2 without a schedule
C26_Witness ==
    /\ payment.loadBusinessData = "done"
    /\ payment.business # None
    /\ payment.paymentType = "INSTALMENT"
    /\ payment.formData.totalAmount = "150000"
    /\ payment.currentStep = 3
    /\ payment.paymentRules = None
    /\ instalmentSchedule(payment) = None

\* A step in which a handleVerifyBank completes
C27_Completes == Len(payment'.verifications) < Len(payment.verifications)

\* C27: a bank selection or account-number edit made while handleVerifyBank
\* is pending is preserved when the verification completes: after completion
\* the form's bankName and accountNumber equal the user's latest input, and
\* bankVerified / a non-empty accountName hold only for the account number
\* and bank currently in the form.
C27_VerificationKeepsEdits ==
    [][C27_Completes =>
          LET asked == Head(payment.verifications)
          IN  /\ payment'.formData.bankName = payment.formData.bankName
              /\ payment'.formData.accountNumber = payment.formData.accountNumber
              /\ (payment'.bankVerified \/ payment'.formData.accountName # "") =>
                     /\ asked.bankName = payment'.formData.bankName
                     /\ asked.accountNumber = payment'.formData.accountNumber]_vars

C28_PayloadValid(payload) ==
    IF payload.payment_type = "INSTALMENT"
    THEN /\ payload.total_amount # None
         /\ payload.total_amount[1] > 0
         /\ payload.recurring_amount = None
         /\ payload.commitment_months = None
    ELSE /\ payload.recurring_amount # None
         /\ payload.recurring_amount[1] >= 5000
         /\ payload.total_amount = None

\* C28: for every sequence of Next, Back, Edit and field-change actions on
\* the CustomerPayment form, currentStep stays in 1..4 and every payload
\* handleSubmit sends satisfies the step-2 validation at the time of
\* submission: total_amount > 0 for INSTALMENT and recurring_amount >= 5000
\* for SUBSCRIPTION, with only the amount fields of the chosen payment type
\* present.
C28_SubmittedPayloadValid ==
    /\ payment.currentStep \in 1..4
    /\ payment.sent # None => C28_PayloadValid(payment.sent[1])

-----------------------------------------------------------------------------
(* Claims checked under SpecFn *)

C2_Supplied(bvn) == bvn # None /\ bvn # Some("")

C2_Amount(data) ==
    IF data.total_amount \notin {None, Some(0)} THEN data.total_amount[1]
    ELSE IF data.recurring_amount \notin {None, Some(0)} THEN data.recurring_amount[1]
    ELSE 0

C2_Bracket(amount) ==
    CASE amount < 50000 -> 20
      [] amount >= 50000 /\ amount < 100000 -> 15
      [] amount >= 100000 /\ amount < 200000 -> 10
      [] amount >= 200000 -> 0

C2_Sum(data, j) ==
    50 + (IF C2_Supplied(data.customer_bvn) THEN 20 ELSE 0)
       + C2_Bracket(C2_Amount(data))
       + (IF data.payment_frequency = "monthly" THEN 10 ELSE 0)
       + j

C2_Clamp(x) == IF x > 100 THEN 100 ELSE IF x < 0 THEN 0 ELSE x

C2_Example(data, j) ==
    /\ C2_Amount(data) = 40000
    /\ C2_Supplied(data.customer_bvn)
    /\ data.payment_frequency = "monthly"
    /\ j = 0

\* C2: for every input and every jitter j of 0..14 calculateMockTrustScore
\* returns min(100, max(0, 50 + 20 [BVN supplied] + bracket(amount)
\* + 10 [monthly] + j)) with the brackets 20 / 15 / 10 / 0 below 50000 /
\* 100000 / 200000 / from 200000; amount 40000 with BVN, monthly and j = 0
\* gives 100.
C2_ScoreFormula ==
    Called("calculateMockTrustScore") =>
        /\ fnOut[1].score = C2_Clamp(C2_Sum(fnIn.data, fnIn.jitter))
        /\ C2_Example(fnIn.data, fnIn.jitter) => fnOut[1].score = 100

\* The example of the claim has been scored.
C2_Witness ==
    /\ Called("calculateMockTrustScore")
    /\ C2_Example(fnIn.data, fnIn.jitter)
    /\ fnOut[1].score = 100

\* A payload the customer form can send (validateStep1, validateStep2 and
\* handleSubmit of the payment form): only the amount field of its payment
\* type, a positive total or a recurring amount of at least 5000, and a BVN
\* that is absent or 11 digits.
C4_ValidInput(data) ==
    /\ data.customer_bvn # Some("")
    /\ data.payment_type = "INSTALMENT" =>
           /\ data.total_amount # None /\ data.total_amount[1] > 0
           /\ data.recurring_amount = None
    /\ data.payment_type = "SUBSCRIPTION" =>
           /\ data.recurring_amount # None /\ data.recurring_amount[1] >= 5000
           /\ data.total_amount = None

\* C4 as stated: for all valid inputs, with the jitter excluded (jitter = 0)
\* the score before clamping lies in [50, 90].
C4_BaseWithin50to90 ==
    (Called("calculateMockTrustScore") /\ fnIn.jitter = 0 /\ C4_ValidInput(fnIn.data)) =>
        (fnOut[1].base >= 50 /\ fnOut[1].base <= 90)

\* C4 as amended: for all valid inputs, with the jitter excluded (jitter = 0)
\* the score before clamping lies in [50, 100].
C4_BaseWithin50to100 ==
    (Called("calculateMockTrustScore") /\ fnIn.jitter = 0 /\ C4_ValidInput(fnIn.data)) =>
        (fnOut[1].base >= 50 /\ fnOut[1].base <= 100)

\* A valid input scored with jitter 0 at the upper end of the range (BVN,
\* amount under 50000, monthly).
C4_Witness ==
    /\ Called("calculateMockTrustScore")
    /\ fnIn.jitter = 0
    /\ C4_ValidInput(fnIn.data)
    /\ fnOut[1].base = 100
    /\ fnOut[1].score = 100

C16_AmountOfType(data) ==
    IF data.payment_type = "INSTALMENT"
    THEN (IF data.total_amount = None THEN 0 ELSE data.total_amount[1])
    ELSE (IF data.recurring_amount = None THEN 0 ELSE data.recurring_amount[1])

\* C16: the amount used for the risk adjustment is total_amount when
\* payment_type is INSTALMENT and recurring_amount otherwise (0 when that
\* field is absent), for every payload, and the score is the one that amount
\* gives.
C16_AmountByPaymentType ==
    Called("calculateMockTrustScore") =>
        /\ fnOut[1].amount = C16_AmountOfType(fnIn.data)
        /\ fnOut[1].score =
               C2_Clamp(50 + (IF C2_Supplied(fnIn.data.customer_bvn) THEN 20 ELSE 0)
                           + C2_Bracket(C16_AmountOfType(fnIn.data))
                           + (IF fnIn.data.payment_frequency = "monthly" THEN 10 ELSE 0)
                           + fnIn.jitter)

\* C5: getStatusFromScore maps every integer score of 0..100 to exactly one
\* status: approved iff s >= 70, under_review iff 40 <= s <= 69, declined iff
\* s <= 39.
C5_StatusBrackets ==
    Called("getStatusFromScore") =>
        LET s == fnIn.score
            r == fnOut[1]
        IN  /\ r \in {"approved", "under_review", "declined"}
            /\ (r = "approved") <=> (s >= 70)
            /\ (r = "under_review") <=> (s >= 40 /\ s <= 69)
            /\ (r = "declined") <=> (s <= 39)

\* The boundary scores 70 and 40 have been mapped.
C5_Witness ==
    /\ Called("getStatusFromScore")
    /\ \/ fnIn.score = 70 /\ fnOut[1] = "approved"
       \/ fnIn.score = 40 /\ fnOut[1] = "under_review"

C8_DefaultThresholds(r) ==
    /\ r.trustedThreshold = 80
    /\ r.verifiedThreshold = 60
    /\ r.newCustomerThreshold = 40
    /\ r.restrictedThreshold = 20

\* C8: with the default thresholds 80/60/40/20 getTrustStateName maps every
\* integer score of 0..100 to exactly one tier: TRUSTED iff s >= 80, VERIFIED
\* iff 60 <= s <= 79, NEW iff 40 <= s <= 59, RESTRICTED iff 20 <= s <= 39,
\* DEFAULTED iff s <= 19.
C8_DefaultTiers ==
    (Called("getTrustStateName") /\ C8_DefaultThresholds(rules)) =>
        LET s == fnIn.score
            t == fnOut[1]
        IN  /\ t \in {"TRUSTED", "VERIFIED", "NEW", "RESTRICTED", "DEFAULTED"}
            /\ (t = "TRUSTED") <=> (s >= 80)
            /\ (t = "VERIFIED") <=> (s >= 60 /\ s <= 79)
            /\ (t = "NEW") <=> (s >= 40 /\ s <= 59)
            /\ (t = "RESTRICTED") <=> (s >= 20 /\ s <= 39)
            /\ (t = "DEFAULTED") <=> (s <= 19)

\* A threshold score has been given its tier under the default thresholds.
C8_Witness ==
    /\ Called("getTrustStateName")
    /\ C8_DefaultThresholds(rules)
    /\ fnIn.score = 60
    /\ fnOut[1] = "VERIFIED"

\* DEFAULTED < RESTRICTED < NEW < VERIFIED < TRUSTED
C25_Rank(tier) ==
    CHOOSE k \in 1..5 :
        <<"DEFAULTED", "RESTRICTED", "NEW", "VERIFIED", "TRUSTED">>[k] = tier

C25_Tiers == {"DEFAULTED", "RESTRICTED", "NEW", "VERIFIED", "TRUSTED"}

C25_Ordered(r) ==
    /\ r.trustedThreshold > r.verifiedThreshold
    /\ r.verifiedThreshold > r.newCustomerThreshold
    /\ r.newCustomerThreshold > r.restrictedThreshold

\* C25: getTrustStateName is monotone in the score for any threshold values,
\* ordered or not: for scores s1 <= s2 the tier of s2 is never lower than the
\* tier of s1 in the order DEFAULTED < RESTRICTED < NEW < VERIFIED < TRUSTED,
\* and every score gets exactly one tier.
C25_TierMonotone ==
    Called("getTrustStateName") =>
        /\ fnOut[1] \in C25_Tiers
        /\ \A s2 \in Scores :
               fnIn.score <= s2 =>
                   /\ getTrustStateName(rules, s2) \in C25_Tiers
                   /\ C25_Rank(getTrustStateName(rules, s2)) >= C25_Rank(fnOut[1])

\* Under thresholds out of order a score below the threshold of RESTRICTED
\* has been given the tier TRUSTED
C25_Witness ==
    /\ Called("getTrustStateName")
    /\ ~C25_Ordered(rules)
    /\ rules.trustedThreshold < rules.restrictedThreshold
    /\ fnIn.score < rules.restrictedThreshold
    /\ fnOut[1] = "TRUSTED"

-----------------------------------------------------------------------------
(* Claim checked under SpecPair *)

-----------------------------------------------------------------------------
(* Claims checked under SpecRules *)

C7_NewApplications ==
    {storage'.applications[i] :
        i \in (DOMAIN storage'.applications) \ (DOMAIN storage.applications)}

\* C7: an application submitted to a business is decided by the thresholds
\* that business has saved: score >= auto-approve threshold A is approved,
\* score < auto-decline threshold D is declined, D .. A-1 is under_review.
C7_DecisionFollowsSavedRules ==
    [][\A a \in C7_NewApplications :
           LET A == storage.trustRules[a.business_id].auto_approve_threshold
               D == storage.trustRules[a.business_id].auto_decline_threshold
           IN  /\ a.trust_score >= A => a.status = "approved"
               /\ a.trust_score < D => a.status = "declined"
               /\ (a.trust_score >= D /\ a.trust_score < A) => a.status = "under_review"
      ]_vars

C9_TierOfBucket ==
    [t \in {"trusted", "verified", "new", "restricted", "defaulted"} |->
        CASE t = "trusted" -> "TRUSTED" [] t = "verified" -> "VERIFIED"
          [] t = "new" -> "NEW" [] t = "restricted" -> "RESTRICTED"
          [] t = "defaulted" -> "DEFAULTED"]

C9_TierOfColour(c) ==
    CASE c = "text-green-700" -> "TRUSTED" [] c = "text-blue-600" -> "VERIFIED"
      [] c = "text-yellow-600" -> "NEW" [] c = "text-orange-600" -> "RESTRICTED"
      [] c = "text-red-600" -> "DEFAULTED"

\* C9: for every trust rules record saved for a business and every score of
\* 0..100, the bucket and the colour the Customers dashboard gives the score
\* are those of the tier getTrustStateName returns under that business's
\* configured thresholds.
C9_CustomersUseConfiguredTiers ==
    \A b \in DOMAIN storage.businesses : \A s \in Scores :
        LET tier == getTrustStateName(uiFromApi(storage.trustRules[b]), s)
        IN  /\ {C9_TierOfBucket[t] : t \in statsBucket(s)} = {tier}
            /\ C9_TierOfColour(getTrustColor(s)) = tier

\* C10: every trust rules record in the store satisfies trusted_min >
\* verified_min > new_min > restricted_min >= 0 and auto_approve_threshold >
\* auto_decline_threshold.
C10_StoredRulesOrdered ==
    \A b \in DOMAIN storage.trustRules :
        LET r == storage.trustRules[b]
        IN  /\ r.trusted_min > r.verified_min
            /\ r.verified_min > r.new_min
            /\ r.new_min > r.restricted_min
            /\ r.restricted_min >= 0
            /\ r.auto_approve_threshold > r.auto_decline_threshold

====
